---- MODULE Spec2Model ----
(***************************************************************************)
(* Enrichment workflow engine: the six stage functions of pipeline.py, the *)
(* two execution strategies (graph chain and sequential fallback), the     *)
(* batch processor process_pending_products and catalog_io's               *)
(* append_unique_records.                                                  *)
(*                                                                         *)
(* Python values are tagged records: None, numbers, strings, lists and     *)
(* dicts.  A dict whose iteration order matters (attributes, seo, ...) is  *)
(* a sequence of <<key, value>> pairs in insertion order; a product record *)
(* is a function whose DOMAIN is the set of keys present.                  *)
(***************************************************************************)
EXTENDS Integers, Sequences, FiniteSets, TLC

VARIABLES
    LANGGRAPH_AVAILABLE,   \* pipeline.py:47, fixed at import
    OPENAI_AVAILABLE,      \* pipeline.py:49, fixed at import
    OPENAI_API_KEY,        \* the environment variable read at pipeline.py:59
    _openai_client,        \* pipeline.py:52, the cached client
    backend,               \* how the text-generation backend answers at present
    simple_store,          \* content of the simple catalog file
    enriched_store,        \* content of the enriched catalog file
    batch,                 \* locals of the running process_pending_products
    run,                   \* per strategy: the enrich_product call in progress
    log,                   \* history: completed process_pending_products calls
    pure,                  \* arguments and result of a function applied on its own
    traced,                \* per tracing setting: the enrich_product call in progress
    workers,               \* the invocations that share the catalogs concurrently
    clock,                 \* the wall clock and the timestamps of the events of the run
    cli                    \* the locals of main of scripts/run_enrichment.py

vars == <<LANGGRAPH_AVAILABLE, OPENAI_AVAILABLE, OPENAI_API_KEY, _openai_client, backend,
          simple_store, enriched_store, batch, run, log, pure, traced, workers, clock, cli>>

(***************************************************************************)
(* Bounds of the model.                                                    *)
(***************************************************************************)
MaxSimple == 2        \* records in the simple catalog
MaxEnriched == 1      \* records in the enriched catalog before the first call
MaxInvocations == 2   \* calls of process_pending_products in one behaviour
MaxExisting == 2      \* records passed as existing to append_unique_records
MaxNew == 2           \* records passed as new_records to append_unique_records
MaxWorkers == 2       \* invocations that share the catalogs at the same time
MaxClock == 2         \* ticks of the wall clock in one behaviour

(***************************************************************************)
(* Python values.                                                          *)
(***************************************************************************)
JNull == [null |-> TRUE]
JNum(n) == [num |-> n]
JDec(h) == [hundredths |-> h]
JStr(s) == [str |-> s]
JFmt(parts) == [fmt |-> parts]
JBool(b) == [bool |-> b]
JList(items) == [list |-> items]
JDict(pairs) == [dict |-> pairs]

IsStr(v) == DOMAIN v = {"str"}
IsDict(v) == DOMAIN v = {"dict"}
IsList(v) == DOMAIN v = {"list"}

\* Python truth value: None, "", 0 and empty containers are falsy
Truthy(v) ==
    CASE v = JNull -> FALSE
      [] DOMAIN v = {"str"} -> v.str # ""
      [] DOMAIN v = {"num"} -> v.num # 0
      [] DOMAIN v = {"hundredths"} -> v.hundredths # 0
      [] DOMAIN v = {"bool"} -> v.bool
      [] DOMAIN v = {"list"} -> v.list # <<>>
      [] DOMAIN v = {"dict"} -> v.dict # <<>>
      [] OTHER -> TRUE

\* product.get(field, default)
Get(product, field, default) ==
    IF field \in DOMAIN product THEN product[field] ELSE default

RECURSIVE DictGet(_, _, _)
\* d.get(key, default) on an insertion-ordered dict
DictGet(pairs, key, default) ==
    IF pairs = <<>> THEN default
    ELSE IF Head(pairs)[1] = key THEN Head(pairs)[2]
    ELSE DictGet(Tail(pairs), key, default)

DictKeys(pairs) == {pairs[i][1] : i \in 1..Len(pairs)}

\* d[key] = value: an existing key keeps its position, a new key goes last
DictSet(pairs, key, value) ==
    IF key \in DictKeys(pairs)
    THEN [i \in 1..Len(pairs) |->
            IF pairs[i][1] = key THEN <<key, value>> ELSE pairs[i]]
    ELSE Append(pairs, <<key, value>>)

\* exceptions
NoExc == [type |-> "none"]
Exc(type) == [type |-> type]

(***************************************************************************)
(* status.py: WorkflowEvent.                                               *)
(***************************************************************************)
Msg(text) == [text |-> text, args |-> <<>>]

WorkflowEvent(step, message, payload) ==
    [step |-> step, message |-> message, payload |-> payload]

WORKFLOW_STEPS ==
    <<"ingest", "extract", "validate", "copywrite", "localize", "publish">>

END == "__end__"

StepIndex(step) == CHOOSE i \in 1..Len(WORKFLOW_STEPS) : WORKFLOW_STEPS[i] = step

(***************************************************************************)
(* Strings.  TLC has no character operations, so the string methods the    *)
(* code uses are tabulated on the strings that occur in the model.         *)
(***************************************************************************)
\* str.lower()
Lower(s) ==
    CASE s = "Outdoors" -> "outdoors"
      [] s = "Capacity" -> "capacity"
      [] s = "20 OZ" -> "20 oz"
      [] s = "Pack Size" -> "pack size"
      [] s = "Category" -> "category"
      [] s = "Weight" -> "weight"
      [] OTHER -> s

\* str.title()
Title(s) ==
    CASE s = "outdoors" -> "Outdoors"
      [] OTHER -> s

\* str.replace(" ", "_")
ReplaceSpaces(s) ==
    CASE s = "pack size" -> "pack_size"
      [] OTHER -> s

\* token in s
Contains(s, token) ==
    \/ token = "oz" /\ s \in {"20 oz", "abc oz", "oz"}
    \/ token = "lb" /\ s \in {"10 lb", "abc lb"}

\* s.split(token)[0].strip()
PrefixBefore(s, token) ==
    CASE s = "20 oz" /\ token = "oz" -> "20"
      [] s = "abc oz" /\ token = "oz" -> "abc"
      [] s = "10 lb" /\ token = "lb" -> "10"
      [] s = "abc lb" /\ token = "lb" -> "abc"
      [] s = "oz" /\ token = "oz" -> ""
      [] OTHER -> s

\* float(s) of a string: the number, or ValueError
FloatOfStr(s) ==
    CASE s = "20" -> [ok |-> TRUE, value |-> 20]
      [] s = "10" -> [ok |-> TRUE, value |-> 10]
      [] OTHER -> [ok |-> FALSE]

\* the strings of the model in Python's sort order
StrOrder == <<"", "Bottle", "Outdoors">>

\* sorted(set of strings)
Sorted(strs) == SelectSeq(StrOrder, LAMBDA s : s \in strs)

\* round(n * num / den, 2), in hundredths
RoundHundredths(n, num, den) == (2 * n * num * 100 + den) \div (2 * den)

(***************************************************************************)
(* pipeline.py:314-332                                                     *)
(***************************************************************************)
\* _convert_units without the two except clauses: the ValueError of float
\* leaves the function
_convert_units_without_except(key, value) ==
    IF ~IsStr(value) THEN value
    ELSE LET lower == Lower(value.str) IN
         IF key \in {"capacity", "volume"} /\ Contains(lower, "oz")
         THEN LET ounces == FloatOfStr(PrefixBefore(lower, "oz")) IN
              IF ~ounces.ok THEN Exc("ValueError")
              ELSE JDict(<< <<"value", JDec(RoundHundredths(ounces.value, 295735, 10000))>>,
                            <<"unit", JStr("ml")>>,
                            <<"source", value>> >>)
         ELSE IF key \in {"weight"} /\ Contains(lower, "lb")
         THEN LET pounds == FloatOfStr(PrefixBefore(lower, "lb")) IN
              IF ~pounds.ok THEN Exc("ValueError")
              ELSE JDict(<< <<"value", JDec(RoundHundredths(pounds.value, 453592, 1000000))>>,
                            <<"unit", JStr("kg")>>,
                            <<"source", value>> >>)
         ELSE value

_convert_units(key, value) ==
    IF ~IsStr(value) THEN value
    ELSE LET lower == Lower(value.str) IN
         IF key \in {"capacity", "volume"} /\ Contains(lower, "oz")
         THEN LET ounces == FloatOfStr(PrefixBefore(lower, "oz")) IN
              IF ~ounces.ok THEN value
              ELSE JDict(<< <<"value", JDec(RoundHundredths(ounces.value, 295735, 10000))>>,
                            <<"unit", JStr("ml")>>,
                            <<"source", value>> >>)
         ELSE IF key \in {"weight"} /\ Contains(lower, "lb")
         THEN LET pounds == FloatOfStr(PrefixBefore(lower, "lb")) IN
              IF ~pounds.ok THEN value
              ELSE JDict(<< <<"value", JDec(RoundHundredths(pounds.value, 453592, 1000000))>>,
                            <<"unit", JStr("kg")>>,
                            <<"source", value>> >>)
         ELSE value

(***************************************************************************)
(* The text-generation capability.  A call either raises or returns a      *)
(* response with a content text and a token count; json.loads of the       *)
(* content either raises or yields a value.                                *)
(***************************************************************************)
CallRaises == [raises |-> TRUE]
Response(content) == [raises |-> FALSE, content |-> content, total_tokens |-> 42]

ExtractedJson ==
    JDict(<< <<"capacity", JStr("20 oz")>>, <<"category", JStr("AI")>> >>)
SeoJson ==
    JDict(<< <<"title", JStr("AI title")>>,
             <<"description", JStr("AI description")>>,
             <<"keywords", JList(<<JStr("bottle")>>)>>,
             <<"long_description", JStr("AI long description")>> >>)
TranslatedJson ==
    JDict(<< <<"title", JStr("titulo")>>,
             <<"description", JStr("descripcion")>>,
             <<"long_description", JStr("descripcion larga")>> >>)

\* json.loads(content)
json_loads(content) ==
    CASE content = "attributes object" -> [ok |-> TRUE, value |-> ExtractedJson]
      [] content = "seo object" -> [ok |-> TRUE, value |-> SeoJson]
      [] content = "translation object" -> [ok |-> TRUE, value |-> TranslatedJson]
      [] content = "[]" -> [ok |-> TRUE, value |-> JList(<<>>)]
      [] content = "{}" -> [ok |-> TRUE, value |-> JDict(<<>>)]
      [] OTHER -> [ok |-> FALSE]

\* the ways the backend can behave: "any" leaves every call free, each other
\* value fixes the answer to all calls made while it lasts
Backends == {"any", "raises", "not json", "[]", "{}", "object"}

\* what the capability may answer to a call that expects the given object
Answers(object) ==
    CASE backend = "any" -> {CallRaises, Response("not json"), Response("[]"), Response("{}"),
                             Response(object)}
      [] backend = "raises" -> {CallRaises}
      [] backend = "object" -> {Response(object)}
      [] OTHER -> {Response(backend)}

NoClient == JNull
Client == [client |-> "OpenAI"]

\* pipeline.py:54-65, the value of the global _openai_client after the call
_get_openai_client_global(cached) ==
    IF ~OPENAI_AVAILABLE THEN cached
    ELSE IF cached = NoClient
         THEN IF Truthy(OPENAI_API_KEY) THEN Client ELSE cached
         ELSE cached

\* pipeline.py:54-65, the value returned
_get_openai_client(cached) ==
    IF ~OPENAI_AVAILABLE THEN NoClient ELSE _get_openai_client_global(cached)

(***************************************************************************)
(* The stage helpers.  Each takes the event list and returns the list      *)
(* after its appends, its return value, the exception it raised (NoExc     *)
(* when it returned) and the cached client after its calls.                *)
(***************************************************************************)
Returns(events, value, client) ==
    [events |-> events, value |-> value, exc |-> NoExc, client |-> client, calls |-> <<>>]
Raises(events, type, client) ==
    [events |-> events, value |-> JNull, exc |-> Exc(type), client |-> client, calls |-> <<>>]

\* one call of client.chat.completions.create (pipeline.py:271, 388, 477):
\* the stage that made it, the locale it asked for, and what came back
Called(stage, locale, answer) == [stage |-> stage, locale |-> locale, answer |-> answer]

\* the outcome of a helper that made the given calls before what it did next
WithCalls(result, calls) == [result EXCEPT !.calls = calls \o @]

RECURSIVE NormalizeItems(_, _)
\* the loop of pipeline.py:306-309 over attributes.items()
NormalizeItems(items, normalized) ==
    IF items = <<>> THEN normalized
    ELSE LET key == Head(items)[1]
             value == Head(items)[2]
             normalized_key == ReplaceSpaces(Lower(key))
             normalized_value == _convert_units(normalized_key, value)
         IN NormalizeItems(Tail(items), DictSet(normalized, normalized_key, normalized_value))

\* pipeline.py:301-311
_fallback_extract_attributes(product, events, client) ==
    LET events1 == Append(events, WorkflowEvent("extract", Msg("Normalizing attributes"), JNull))
        attributes == Get(product, "attributes", JDict(<<>>))
        category == Get(product, "category", JStr("uncategorized"))
    IN IF ~IsDict(attributes) THEN Raises(events1, "AttributeError", client)
       ELSE IF ~IsStr(category) THEN Raises(events1, "AttributeError", client)
       ELSE Returns(events1,
                    JDict(DictSet(NormalizeItems(attributes.dict, <<>>),
                                  "category", JStr(Lower(category.str)))),
                    client)

\* the loop of pipeline.py:290-291
ConvertAll(pairs) ==
    [i \in 1..Len(pairs) |-> <<pairs[i][1], _convert_units(pairs[i][1], pairs[i][2])>>]

\* pipeline.py:248-298
_ai_extract_attributes(product, events, client, answer) ==
    LET failed(ev) ==
            _fallback_extract_attributes(product,
                Append(ev, WorkflowEvent("extract", Msg("AI extraction failed, using fallback"), JNull)),
                client)
    IN WithCalls(
         IF answer.raises THEN failed(events)
         ELSE LET parsed == json_loads(answer.content) IN
              IF ~parsed.ok THEN failed(events)
              ELSE LET events1 == Append(events,
                                      WorkflowEvent("extract", Msg("AI extracted product attributes"),
                                                    [token_usage |-> answer.total_tokens]))
                       extracted == parsed.value
                       category == Get(product, "category", JStr("uncategorized"))
                   IN IF ~IsDict(extracted) \/ ~IsStr(category) THEN failed(events1)
                      ELSE Returns(events1,
                                   JDict(ConvertAll(DictSet(extracted.dict, "category",
                                                            JStr(Lower(category.str))))),
                                   client),
         <<Called("extract", "", answer)>>)

\* pipeline.py:235-245
_normalize_attributes(product, events, cached, answer) ==
    LET events1 == Append(events, WorkflowEvent("extract", Msg("Extracting attributes with AI"), JNull))
        client == _get_openai_client(cached)
        global == _get_openai_client_global(cached)
    IN IF Truthy(client)
       THEN _ai_extract_attributes(product, events1, global, answer)
       ELSE _fallback_extract_attributes(product,
                Append(events1, WorkflowEvent("extract", Msg("Using fallback attribute extraction"), JNull)),
                global)

\* float(value) of pipeline.py:343
FloatOf(value) ==
    CASE DOMAIN value = {"num"} -> [ok |-> TRUE, value |-> value]
      [] DOMAIN value = {"str"} ->
            LET f == FloatOfStr(value.str) IN
            IF f.ok THEN [ok |-> TRUE, value |-> JNum(f.value)] ELSE [ok |-> FALSE]
      [] OTHER -> [ok |-> FALSE]

\* pipeline.py:336-337
MissingFields(product) ==
    SelectSeq(<<"sku", "name", "price">>, LAMBDA field : ~Truthy(Get(product, field, JNull)))

\* _validate_product logging only the failed validations
_validate_product_silent_on_success(product, events, client) ==
    LET missing == MissingFields(product) IN
    IF missing # <<>>
    THEN [events |-> Append(events,
                        WorkflowEvent("validate",
                                      [text |-> "Missing required fields: ", args |-> missing],
                                      [status |-> "error"])),
          value |-> JNull,
          exc |-> [type |-> "ValueError", missing |-> missing],
          client |-> client,
          calls |-> <<>>]
    ELSE LET price_value == FloatOf(Get(product, "price", JNum(0)))
         IN IF ~price_value.ok THEN Raises(events, "ValueError", client)
            ELSE Returns(events,
                         JDict(<< <<"currency", Get(product, "currency", JStr("USD"))>>,
                                  <<"price", price_value.value>>,
                                  <<"in_stock", JBool(TRUE)>> >>),
                         client)

\* pipeline.py:335-344
_validate_product(product, events, client) ==
    LET missing == MissingFields(product) IN
    IF missing # <<>>
    THEN [events |-> Append(events,
                        WorkflowEvent("validate",
                                      [text |-> "Missing required fields: ", args |-> missing],
                                      [status |-> "error"])),
          value |-> JNull,
          exc |-> [type |-> "ValueError", missing |-> missing],
          client |-> client,
          calls |-> <<>>]
    ELSE LET events1 == Append(events, WorkflowEvent("validate", Msg("Validation passed"), JNull))
             price_value == FloatOf(Get(product, "price", JNum(0)))
         IN IF ~price_value.ok THEN Raises(events1, "ValueError", client)
            ELSE Returns(events1,
                         JDict(<< <<"currency", Get(product, "currency", JStr("USD"))>>,
                                  <<"price", price_value.value>>,
                                  <<"in_stock", JBool(TRUE)>> >>),
                         client)

\* str.strip() of the formatted title: a trailing blank goes when the last part is empty
StripFmt(parts) ==
    IF parts[Len(parts)] = JStr("") /\ Len(parts) > 1
    THEN [i \in 1..(Len(parts) - 1) |->
            IF i = Len(parts) - 1 /\ parts[i] = JStr(" | ") THEN JStr(" |") ELSE parts[i]]
    ELSE parts

\* pipeline.py:410-417
_fallback_seo_copy(product, normalized, events, client) ==
    LET description0 == Get(product, "description", JStr(""))
        key_attr == IF normalized.dict = <<>> THEN description0 ELSE normalized.dict[1][2]
        category == Get(product, "category", JStr(""))
    IN IF "name" \notin DOMAIN product THEN Raises(events, "KeyError", client)
       ELSE IF ~IsStr(category) THEN Raises(events, "AttributeError", client)
       ELSE IF ~IsStr(Get(product, "name", JStr(""))) THEN Raises(events, "TypeError", client)
       ELSE LET name == product["name"]
                title == JFmt(StripFmt(<<name, JStr(" | "), JStr(Title(category.str))>>))
                description == JFmt(<<JStr("Buy "), name, JStr(" featuring "),
                                      IF IsStr(key_attr) THEN key_attr ELSE description0,
                                      JStr(".")>>)
                keywords == Sorted({category.str, name.str})
            IN Returns(Append(events, WorkflowEvent("copywrite", Msg("Generated SEO copy"), JNull)),
                       JDict(<< <<"title", title>>,
                                <<"description", description>>,
                                <<"keywords",
                                  JList([i \in 1..Len(SelectSeq(keywords, LAMBDA kw : kw # "")) |->
                                            JStr(SelectSeq(keywords, LAMBDA kw : kw # "")[i])])>> >>),
                       client)

\* pipeline.py:356-407
_ai_generate_seo_copy(product, normalized, events, client, answer) ==
    LET failed ==
            _fallback_seo_copy(product, normalized,
                Append(events, WorkflowEvent("copywrite", Msg("AI SEO failed, using fallback"), JNull)),
                client)
    IN WithCalls(
         IF answer.raises THEN failed
         ELSE LET seo_copy == json_loads(answer.content) IN
              IF ~seo_copy.ok THEN failed
              ELSE Returns(Append(events,
                                  WorkflowEvent("copywrite", Msg("AI generated SEO copy"),
                                                [token_usage |-> answer.total_tokens])),
                           seo_copy.value, client),
         <<Called("copywrite", "", answer)>>)

\* pipeline.py:347-353
_build_seo_copy(product, normalized, events, cached, answer) ==
    LET client == _get_openai_client(cached)
        global == _get_openai_client_global(cached)
    IN IF Truthy(client)
       THEN _ai_generate_seo_copy(product, normalized, events, global, answer)
       ELSE _fallback_seo_copy(product, normalized,
                Append(events, WorkflowEvent("copywrite", Msg("Using fallback SEO generation"), JNull)),
                global)

\* pipeline.py:452
locale_name(locale) ==
    CASE locale = "es-ES" -> "Spanish"
      [] locale = "fr-FR" -> "French"
      [] OTHER -> locale

RECURSIVE LocalizeLoop(_, _, _, _, _)
\* the loop of pipeline.py:450-501 over target_locales[1:]
LocalizeLoop(locales, answers, localizations, events, calls) ==
    IF locales = <<>> THEN [localizations |-> localizations, events |-> events, calls |-> calls]
    ELSE LET locale == Head(locales)
             answer == Head(answers)
             made == Append(calls, Called("localize", locale, answer))
             failed == LocalizeLoop(Tail(locales), Tail(answers), localizations,
                           Append(events,
                                  WorkflowEvent("localize",
                                                [text |-> "Localization failed for ", args |-> <<locale>>],
                                                JNull)),
                           made)
         IN IF answer.raises THEN failed
            ELSE LET translated == json_loads(answer.content) IN
                 IF ~translated.ok THEN failed
                 ELSE IF ~IsDict(translated.value) THEN failed
                 ELSE LocalizeLoop(Tail(locales), Tail(answers),
                          Append(localizations,
                                 JDict(<< <<"locale", JStr(locale)>>,
                                          <<"title", DictGet(translated.value.dict, "title", JStr(""))>>,
                                          <<"description", DictGet(translated.value.dict, "description", JStr(""))>>,
                                          <<"long_description",
                                            DictGet(translated.value.dict, "long_description", JStr(""))>> >>)),
                          Append(events,
                                 WorkflowEvent("localize",
                                               [text |-> "AI localized to ", args |-> <<locale_name(locale)>>],
                                               [token_usage |-> answer.total_tokens])),
                          made)

\* pipeline.py:431
target_locales == <<"en-US", "es-ES", "fr-FR">>

\* pipeline.py:429-503
_ai_localize_copy(seo_copy, events, client, answers) ==
    IF ~IsDict(seo_copy) THEN Raises(events, "AttributeError", client)
    ELSE LET base == JDict(<< <<"locale", JStr("en-US")>>,
                              <<"title", DictGet(seo_copy.dict, "title", JStr(""))>>,
                              <<"description", DictGet(seo_copy.dict, "description", JStr(""))>>,
                              <<"long_description", DictGet(seo_copy.dict, "long_description", JStr(""))>> >>)
             done == LocalizeLoop(Tail(target_locales), answers, <<base>>, events, <<>>)
         IN WithCalls(Returns(done.events, JList(done.localizations), client), done.calls)

\* _fallback_localize_copy with its event filed under the copywrite step
_fallback_localize_copy_wrong_step(seo_copy, events, client) ==
    LET events1 == Append(events, WorkflowEvent("copywrite", Msg("Generated default locale copy"), JNull))
    IN IF ~IsDict(seo_copy) THEN Raises(events1, "AttributeError", client)
       ELSE Returns(events1,
                    JList(<< JDict(<< <<"locale", JStr("en-US")>>,
                                      <<"title", DictGet(seo_copy.dict, "title", JStr(""))>>,
                                      <<"description", DictGet(seo_copy.dict, "description", JStr(""))>> >>) >>),
                    client)

\* pipeline.py:506-509
_fallback_localize_copy(seo_copy, events, client) ==
    LET events1 == Append(events, WorkflowEvent("localize", Msg("Generated default locale copy"), JNull))
    IN IF ~IsDict(seo_copy) THEN Raises(events1, "AttributeError", client)
       ELSE Returns(events1,
                    JList(<< JDict(<< <<"locale", JStr("en-US")>>,
                                      <<"title", DictGet(seo_copy.dict, "title", JStr(""))>>,
                                      <<"description", DictGet(seo_copy.dict, "description", JStr(""))>> >>) >>),
                    client)

\* _localize_copy taking the fallback whatever the client is
_localize_copy_ignoring_client(seo_copy, events, cached, answers) ==
    _fallback_localize_copy(seo_copy,
        Append(events, WorkflowEvent("localize", Msg("Using fallback localization"), JNull)),
        _get_openai_client_global(cached))

\* pipeline.py:420-426
_localize_copy(seo_copy, events, cached, answers) ==
    LET client == _get_openai_client(cached)
        global == _get_openai_client_global(cached)
    IN IF Truthy(client)
       THEN _ai_localize_copy(seo_copy, events, global, answers)
       ELSE _fallback_localize_copy(seo_copy,
                Append(events, WorkflowEvent("localize", Msg("Using fallback localization"), JNull)),
                global)

(***************************************************************************)
(* The six nodes.  A node reads the state dict, appends to the event list  *)
(* in place and returns a partial state.                                   *)
(***************************************************************************)
NodeReturns(r, update) ==
    [events |-> r.events, update |-> update, exc |-> r.exc, client |-> r.client,
     calls |-> r.calls]

\* pipeline.py:162-170
_node_ingest(state, cached, answers) ==
    LET product == state["product"]
        events == Append(Get(state, "events", <<>>),
                         WorkflowEvent("ingest", Msg("Loaded product"),
                                       [sku |-> Get(product, "sku", JNull)]))
    IN [events |-> events, update |-> [events |-> events], exc |-> NoExc, client |-> cached,
        calls |-> <<>>]

\* pipeline.py:173-179
_node_extract(state, cached, answers) ==
    LET r == _normalize_attributes(state["product"], Get(state, "events", <<>>), cached, answers[1])
    IN NodeReturns(r, [events |-> r.events, normalized_attributes |-> r.value])

\* pipeline.py:182-188
_node_validate(state, cached, answers) ==
    LET r == _validate_product(state["product"], Get(state, "events", <<>>), cached)
    IN NodeReturns(r, [events |-> r.events, pricing |-> r.value])

\* _node_copywrite starting from a new list instead of the list of the state
_node_copywrite_returning_own_events(state, cached, answers) ==
    LET r == _build_seo_copy(state["product"], Get(state, "normalized_attributes", JDict(<<>>)),
                             <<>>, cached, answers[1])
    IN [events |-> Get(state, "events", <<>>),
        update |-> [events |-> r.events, seo |-> r.value],
        exc |-> r.exc, client |-> r.client, calls |-> r.calls]

\* pipeline.py:191-198
_node_copywrite(state, cached, answers) ==
    LET r == _build_seo_copy(state["product"], Get(state, "normalized_attributes", JDict(<<>>)),
                             Get(state, "events", <<>>), cached, answers[1])
    IN NodeReturns(r, [events |-> r.events, seo |-> r.value])

\* _node_localize returning its result under the key of the seo slot
_node_localize_overwriting_seo(state, cached, answers) ==
    LET r == _localize_copy(Get(state, "seo", JDict(<<>>)), Get(state, "events", <<>>), cached, answers)
    IN NodeReturns(r, [events |-> r.events, seo |-> r.value])

\* pipeline.py:201-207
_node_localize(state, cached, answers) ==
    LET r == _localize_copy(Get(state, "seo", JDict(<<>>)), Get(state, "events", <<>>), cached, answers)
    IN NodeReturns(r, [events |-> r.events, localizations |-> r.value])

\* _node_publish reading the pricing slot under the key price
_node_publish_misreading_pricing(state, cached, answers) ==
    LET product == state["product"]
        events == Get(state, "events", <<>>)
    IN IF "sku" \notin DOMAIN product \/ "name" \notin DOMAIN product
       THEN [events |-> events, update |-> <<>>, exc |-> Exc("KeyError"), client |-> cached,
             calls |-> <<>>]
       ELSE LET enriched ==
                    [sku |-> product["sku"],
                     name |-> product["name"],
                     normalized_attributes |-> Get(state, "normalized_attributes", JDict(<<>>)),
                     seo |-> Get(state, "seo", JDict(<<>>)),
                     localizations |-> Get(state, "localizations", JList(<<>>)),
                     pricing |-> Get(state, "price", JDict(<<>>))]
                events1 == Append(events,
                                  WorkflowEvent("publish", Msg("Enriched product ready"),
                                                [sku |-> product["sku"]]))
            IN [events |-> events1, update |-> [events |-> events1, enriched |-> enriched],
                exc |-> NoExc, client |-> cached, calls |-> <<>>]

\* pipeline.py:210-232
_node_publish(state, cached, answers) ==
    LET product == state["product"]
        events == Get(state, "events", <<>>)
    IN IF "sku" \notin DOMAIN product \/ "name" \notin DOMAIN product
       THEN [events |-> events, update |-> <<>>, exc |-> Exc("KeyError"), client |-> cached,
             calls |-> <<>>]
       ELSE LET enriched ==
                    [sku |-> product["sku"],
                     name |-> product["name"],
                     normalized_attributes |-> Get(state, "normalized_attributes", JDict(<<>>)),
                     seo |-> Get(state, "seo", JDict(<<>>)),
                     localizations |-> Get(state, "localizations", JList(<<>>)),
                     pricing |-> Get(state, "pricing", JDict(<<>>))]
                events1 == Append(events,
                                  WorkflowEvent("publish", Msg("Enriched product ready"),
                                                [sku |-> product["sku"]]))
            IN [events |-> events1, update |-> [events |-> events1, enriched |-> enriched],
                exc |-> NoExc, client |-> cached, calls |-> <<>>]

\* pipeline.py:134-139, the function registered under each node name
Node(name, state, cached, answers) ==
    CASE name = "ingest" -> _node_ingest(state, cached, answers)
      [] name = "extract" -> _node_extract(state, cached, answers)
      [] name = "validate" -> _node_validate(state, cached, answers)
      [] name = "copywrite" -> _node_copywrite(state, cached, answers)
      [] name = "localize" -> _node_localize(state, cached, answers)
      [] name = "publish" -> _node_publish(state, cached, answers)

\* the answers the capability gives to the calls one node makes, in call order
AnswerSeqs(name) ==
    IF ~Truthy(_get_openai_client(_openai_client)) THEN {<<>>}
    ELSE CASE name = "extract" -> {<<a>> : a \in Answers("attributes object")}
           [] name = "copywrite" -> {<<a>> : a \in Answers("seo object")}
           [] name = "localize" ->
                {<<a, b>> : a \in Answers("translation object"), b \in Answers("translation object")}
           [] OTHER -> {<<>>}

(***************************************************************************)
(* The two execution strategies.                                           *)
(***************************************************************************)
Strategies == {"graph", "sequential"}

\* pipeline.py:141
entry_point == "ingest"

\* Edges with the edge out of validate leading past copywrite
Edges_skipping_copywrite ==
    [ingest |-> "extract", extract |-> "validate", validate |-> "localize",
     copywrite |-> "localize", localize |-> "publish", publish |-> END]

\* pipeline.py:142-147
Edges ==
    [ingest |-> "extract", extract |-> "validate", validate |-> "copywrite",
     copywrite |-> "localize", localize |-> "publish", publish |-> END]

\* SequentialCalls with the return value of _node_extract dropped
SequentialCalls_dropping_extract ==
    << [node |-> "ingest", update |-> FALSE],
       [node |-> "extract", update |-> FALSE],
       [node |-> "validate", update |-> TRUE],
       [node |-> "copywrite", update |-> TRUE],
       [node |-> "localize", update |-> TRUE],
       [node |-> "publish", update |-> TRUE] >>

\* pipeline.py:515-520: the node called on each line and whether its
\* return value is merged with state.update
SequentialCalls ==
    << [node |-> "ingest", update |-> FALSE],
       [node |-> "extract", update |-> TRUE],
       [node |-> "validate", update |-> TRUE],
       [node |-> "copywrite", update |-> TRUE],
       [node |-> "localize", update |-> TRUE],
       [node |-> "publish", update |-> TRUE] >>

\* dict.update, and the merge of a node's partial state into the graph state
Update(state, update) ==
    [k \in DOMAIN state \cup DOMAIN update |->
        IF k \in DOMAIN update THEN update[k] ELSE state[k]]

\* the appends of a node are made on the list object the state refers to
InPlace(state, events) == [state EXCEPT !["events"] = events]

IdleRun ==
    [status |-> "idle", product |-> <<>>, state |-> <<>>, node |-> END, line |-> 0,
     exc |-> NoExc, result |-> JNull, started |-> <<>>, calls |-> <<>>]

\* StartRun with one event list kept from call to call instead of a new list
StartRun_sharing_events(s, product) ==
    [status |-> "running", product |-> product,
     state |-> [product |-> product,
                events |-> IF batch.processed = <<>> THEN <<>>
                           ELSE batch.processed[Len(batch.processed)].events],
     node |-> IF s = "graph" THEN entry_point ELSE SequentialCalls[1].node,
     line |-> IF s = "graph" THEN 0 ELSE 1,
     exc |-> NoExc, result |-> JNull, started |-> <<>>, calls |-> <<>>]

\* pipeline.py:535-538 (graph) and 513-514 (sequential)
StartRun(s, product) ==
    [status |-> "running", product |-> product,
     state |-> [product |-> product, events |-> <<>>],
     node |-> IF s = "graph" THEN entry_point ELSE SequentialCalls[1].node,
     line |-> IF s = "graph" THEN 0 ELSE 1,
     exc |-> NoExc, result |-> JNull, started |-> <<>>, calls |-> <<>>]

\* pipeline.py:559-569
EnrichReturn(r, result) ==
    LET enriched == Get(result, "enriched", JNull) IN
    IF ~Truthy(enriched)
    THEN [r EXCEPT !.status = "raised", !.exc = Exc("RuntimeError"), !.state = result, !.node = END]
    ELSE [r EXCEPT !.status = "returned", !.state = result, !.node = END,
                   !.result = [sku |-> r.product["sku"], original |-> r.product,
                               enriched |-> enriched, events |-> Get(result, "events", <<>>)]]

\* one node of graph.invoke (pipeline.py:544-549), then the edge out of it
GraphStep(r, cached, answers) ==
    CHOOSE out \in
        {LET reached == [r EXCEPT !.started = Append(r.started, r.node),
                                  !.calls = @ \o res.calls]
         IN IF res.exc # NoExc
            THEN [reached EXCEPT !.status = "raised", !.exc = res.exc,
                                 !.state = InPlace(r.state, res.events)]
            ELSE LET merged == Update(InPlace(r.state, res.events), res.update) IN
                 IF Edges[r.node] = END THEN EnrichReturn(reached, merged)
                 ELSE [reached EXCEPT !.state = merged, !.node = Edges[r.node]] :
         res \in {Node(r.node, r.state, cached, answers)}} : TRUE

\* one line of _run_sequential_pipeline (pipeline.py:515-520)
SequentialStep(r, cached, answers) ==
    LET call == SequentialCalls[r.line] IN
    CHOOSE out \in
        {LET reached == [r EXCEPT !.started = Append(r.started, call.node),
                                  !.calls = @ \o res.calls]
         IN IF res.exc # NoExc
            THEN [reached EXCEPT !.status = "raised", !.exc = res.exc,
                                 !.state = InPlace(r.state, res.events)]
            ELSE LET merged == IF call.update
                               THEN Update(InPlace(r.state, res.events), res.update)
                               ELSE InPlace(r.state, res.events)
                 IN IF r.line = Len(SequentialCalls) THEN EnrichReturn(reached, merged)
                    ELSE [reached EXCEPT !.state = merged, !.line = r.line + 1,
                                         !.node = SequentialCalls[r.line + 1].node] :
         res \in {Node(call.node, r.state, cached, answers)}} : TRUE

StepRun(s, r, cached, answers) ==
    IF s = "graph" THEN GraphStep(r, cached, answers) ELSE SequentialStep(r, cached, answers)

\* pipeline.py:528, the strategy enrich_product takes
Selected == IF LANGGRAPH_AVAILABLE THEN "graph" ELSE "sequential"

(***************************************************************************)
(* catalog_io.py                                                           *)
(***************************************************************************)
RECURSIVE AppendLoop_forgetting_seen(_, _, _, _)
\* AppendLoop without seen.add(identifier)
AppendLoop_forgetting_seen(new_records, key, appended, seen) ==
    IF new_records = <<>> THEN [exc |-> NoExc, appended |-> appended]
    ELSE LET record == Head(new_records)
             identifier == Get(record, key, JNull)
         IN IF identifier = JNull THEN [exc |-> Exc("ValueError"), appended |-> appended]
            ELSE IF identifier \in seen
                 THEN AppendLoop_forgetting_seen(Tail(new_records), key, appended, seen)
                 ELSE AppendLoop_forgetting_seen(Tail(new_records), key, Append(appended, record), seen)

RECURSIVE AppendLoop(_, _, _, _)
\* the loop of catalog_io.py:29-36
AppendLoop(new_records, key, appended, seen) ==
    IF new_records = <<>> THEN [exc |-> NoExc, appended |-> appended]
    ELSE LET record == Head(new_records)
             identifier == Get(record, key, JNull)
         IN IF identifier = JNull THEN [exc |-> Exc("ValueError"), appended |-> appended]
            ELSE IF identifier \in seen
                 THEN AppendLoop(Tail(new_records), key, appended, seen)
                 ELSE AppendLoop(Tail(new_records), key, Append(appended, record),
                                 seen \cup {identifier})

\* catalog_io.py:25-38: the list written and returned, or the exception raised
append_unique_records(existing, new_records, key) ==
    AppendLoop(new_records, key, existing,
               {existing[i][key] : i \in {j \in 1..Len(existing) : key \in DOMAIN existing[j]}})

\* a catalog file that does not exist
NoFile == [missing |-> TRUE]

\* a catalog file whose text is not JSON
Unparsable == [text |-> "not json"]

\* load_json_array reading anything that is not a list as the empty list
load_json_array_lenient(store) ==
    IF store = NoFile THEN [exc |-> NoExc, data |-> <<>>]
    ELSE IF store = Unparsable THEN [exc |-> NoExc, data |-> <<>>]
    ELSE IF ~IsList(store) THEN [exc |-> NoExc, data |-> <<>>]
    ELSE [exc |-> NoExc, data |-> store.list]

\* catalog_io.py:9-16: the list read, or the exception raised
load_json_array(store) ==
    IF store = NoFile THEN [exc |-> NoExc, data |-> <<>>]
    ELSE IF store = Unparsable THEN [exc |-> Exc("JSONDecodeError"), data |-> <<>>]
    ELSE IF ~IsList(store) THEN [exc |-> Exc("ValueError"), data |-> <<>>]
    ELSE [exc |-> NoExc, data |-> store.list]

\* a list element on which record.get can be called (pipeline.py:577-578):
\* a JSON object, not a number, string, boolean, null or list
IsMapping(record) == DOMAIN record \cap {"null", "num", "str", "bool", "list"} = {}

\* catalog_io.py:19-22: the content of the file after the write
write_json_array(records) == JList(records)

(***************************************************************************)
(* process_pending_products, pipeline.py:572-598                           *)
(***************************************************************************)
\* Pending narrowed to the first pending record instead of the last
Pending_taking_first(simple_records, enriched_records, process_all) ==
    LET existing_skus == {Get(enriched_records[i], "sku", JNull) : i \in 1..Len(enriched_records)}
        pending == SelectSeq(simple_records,
                             LAMBDA record : Get(record, "sku", JNull) \notin existing_skus)
    IN IF ~process_all /\ pending # <<>> THEN <<pending[1]>> ELSE pending

\* pipeline.py:577-580
Pending(simple_records, enriched_records, process_all) ==
    LET existing_skus == {Get(enriched_records[i], "sku", JNull) : i \in 1..Len(enriched_records)}
        pending == SelectSeq(simple_records,
                             LAMBDA record : Get(record, "sku", JNull) \notin existing_skus)
    IN IF ~process_all /\ pending # <<>> THEN <<pending[Len(pending)]>> ELSE pending

\* the locals of process_pending_products; attempted and outcomes are the
\* history of the records passed to enrich_product and of how each call
\* ended, exc and wrote describe how process_pending_products ended
IdleBatch ==
    [pc |-> "idle", process_all |-> FALSE, simple_records |-> <<>>, enriched_records |-> <<>>,
     pending |-> <<>>, i |-> 0, processed |-> <<>>, attempted |-> <<>>, outcomes |-> <<>>,
     exc |-> NoExc, wrote |-> FALSE]

(***************************************************************************)
(* The inputs of the model.                                                *)
(***************************************************************************)
Absent == [absent |-> TRUE]
Opt(key, value) == IF value = Absent THEN <<>> ELSE key :> value

MakeProduct(sku, name, price, category) ==
    Opt("sku", sku) @@ Opt("name", name) @@ Opt("price", price) @@ Opt("category", category)
    @@ [description |-> JStr("Keeps liquids hot."),
        currency |-> JStr("USD"),
        attributes |-> JDict(<< <<"Capacity", JStr("20 oz")>> >>)]

\* attributes whose keys have capitals and a space, one of them named as the
\* category is, and a weight in pounds
RichAttributes ==
    JDict(<< <<"Pack Size", JStr("6")>>, <<"Category", JStr("Raw")>>,
             <<"Weight", JStr("10 lb")>> >>)

\* the product with the given attributes, without the key when Absent
WithAttributes(product, attributes) ==
    IF attributes = Absent
    THEN [k \in DOMAIN product \ {"attributes"} |-> product[k]]
    ELSE [product EXCEPT !["attributes"] = attributes]

\* the products given to enrich_product directly
Products ==
    {MakeProduct(sku, name, price, category) :
        sku \in {JStr("A"), JStr("B"), Absent},
        name \in {JStr("Bottle"), JStr("")},
        price \in {JNum(10), JNum(0), JStr("abc"), Absent},
        category \in {JStr("Outdoors"), JNull, Absent}}
    \cup {WithAttributes(MakeProduct(JStr("A"), JStr("Bottle"), JNum(10), category), attributes) :
             category \in {JStr("Outdoors"), JNull, Absent},
             attributes \in {RichAttributes, Absent}}

\* the records of the simple catalog
CatalogProducts ==
    {MakeProduct(JStr("A"), JStr("Bottle"), JNum(10), JStr("Outdoors")),
     MakeProduct(JStr("B"), JStr("Bottle"), JNum(10), JStr("Outdoors")),
     MakeProduct(JStr("A"), JStr("Bottle"), JNum(10), Absent),
     MakeProduct(JStr("B"), JStr(""), JNum(10), JStr("Outdoors")),
     MakeProduct(Absent, JStr("Bottle"), JNum(10), JStr("Outdoors"))}

\* the records the enriched catalog holds before the first call
StoredRecords ==
    {[sku |-> JStr("A"), name |-> JStr("Bottle")],
     [sku |-> JStr("B"), name |-> JStr("Bottle")]}

\* catalog files that do not hold a sequence of records: text that is not
\* JSON, a JSON object, and a list of numbers
CorruptStores == {Unparsable, JDict(<<>>), JList(<<JNum(1)>>)}

SeqsUpTo(S, n) == UNION {[1..k -> S] : k \in 0..n}

\* OPENAI_AVAILABLE and OPENAI_API_KEY of a process
Environments ==
    {<<TRUE, JStr("sk-test")>>, <<TRUE, JNull>>, <<TRUE, JStr("")>>, <<FALSE, JStr("sk-test")>>}

\* the behaviours of the backend during a batch call: a call that raises
\* (unparsable content takes the same except branch), and the three kinds of
\* parsed content
BatchBackends == {"raises", "[]", "{}", "object"}

\* the environments of the batch runs
BatchEnvironments == {<<TRUE, JStr("sk-test")>>, <<TRUE, JNull>>}

InitEnvironment(environments) ==
    /\ LANGGRAPH_AVAILABLE \in BOOLEAN
    /\ \E e \in environments : OPENAI_AVAILABLE = e[1] /\ OPENAI_API_KEY = e[2]
    /\ _openai_client = NoClient
    /\ backend = "any"

\* what main leaves alone besides the catalogs and the batch
UnchangedEnvironment_but_cli ==
    UNCHANGED <<LANGGRAPH_AVAILABLE, OPENAI_AVAILABLE, OPENAI_API_KEY, backend, pure, traced,
                workers, clock>>

UnchangedEnvironment ==
    /\ UnchangedEnvironment_but_cli
    /\ UNCHANGED cli

NoPure == [done |-> FALSE, existing |-> <<>>, new_records |-> <<>>, result |-> JNull]

\* LANGSMITH_AVAILABLE (pipeline.py:48) and the environment variable
\* LANGSMITH_API_KEY of a process: unset, empty or set
TraceSettings ==
    {<<TRUE, Absent>>, <<TRUE, JStr("")>>, <<TRUE, JStr("ls-test")>>, <<FALSE, JStr("ls-test")>>}

NoTraced == [t \in TraceSettings |-> IdleRun]

NoWorkers == <<>>

\* status.py:14: the clock before any reading, and no event stamped yet
NoClock == [now |-> 0, stamps |-> <<>>]

\* run_enrichment.py:78: main before it has parsed its arguments;
\* original_enriched is None as long as it is not assigned
NoCli == [pc |-> "start", dry_run |-> FALSE, all |-> FALSE, original_enriched |-> JNull,
          exc |-> NoExc]

Init ==
    /\ InitEnvironment(BatchEnvironments)
    /\ simple_store \in {NoFile} \cup CorruptStores
                        \cup {JList(c) : c \in SeqsUpTo(CatalogProducts, MaxSimple)}
    /\ enriched_store \in {NoFile} \cup CorruptStores
                          \cup {JList(c) : c \in SeqsUpTo(StoredRecords, MaxEnriched)}
    /\ batch = IdleBatch
    /\ run = [s \in Strategies |-> IdleRun]
    /\ log = <<>>
    /\ pure = NoPure
    /\ traced = NoTraced
    /\ workers = NoWorkers
    /\ clock = NoClock
    /\ cli = NoCli

(***************************************************************************)
(* Actions.                                                                *)
(***************************************************************************)
\* pipeline.py:572-582: load both catalogs and compute pending; an exception
\* of a load, or of record.get on an element that is not a mapping, ends the
\* call
Invoke ==
    /\ batch.pc \in {"idle", "done", "raised"}
    /\ Len(log) < MaxInvocations
    /\ \A s \in Strategies : run[s].status = "idle"
    /\ \E process_all \in BOOLEAN :
         LET simple_records == load_json_array(simple_store)
             enriched_records == load_json_array(enriched_store)
             records == enriched_records.data \o simple_records.data
         IN IF \/ simple_records.exc # NoExc
               \/ enriched_records.exc # NoExc
               \/ \E k \in 1..Len(records) : ~IsMapping(records[k])
            THEN /\ batch' = [IdleBatch EXCEPT
                                 !.pc = "raised", !.process_all = process_all,
                                 !.exc = IF simple_records.exc # NoExc THEN simple_records.exc
                                         ELSE IF enriched_records.exc # NoExc
                                              THEN enriched_records.exc
                                              ELSE Exc("AttributeError")]
                 /\ log' = Append(log, [process_all |-> process_all, pending |-> <<>>,
                                        returned |-> 0, appended |-> <<>>])
            ELSE /\ batch' = [pc |-> "loop", process_all |-> process_all,
                              simple_records |-> simple_records.data,
                              enriched_records |-> enriched_records.data,
                              pending |-> Pending(simple_records.data, enriched_records.data,
                                                  process_all),
                              i |-> 1, processed |-> <<>>, attempted |-> <<>>,
                              outcomes |-> <<>>, exc |-> NoExc, wrote |-> FALSE]
                 /\ log' = log
    /\ backend' \in IF Truthy(_get_openai_client(_openai_client))
                    THEN BatchBackends ELSE {backend}
    /\ UNCHANGED <<_openai_client, simple_store, enriched_store, run, pure, traced, workers,
                   clock, cli>>
    /\ UNCHANGED <<LANGGRAPH_AVAILABLE, OPENAI_AVAILABLE, OPENAI_API_KEY>>

\* pipeline.py:583-585: the next pending record enters enrich_product
EnrichStart ==
    /\ batch.pc = "loop"
    /\ batch.i <= Len(batch.pending)
    /\ run[Selected].status = "idle"
    /\ run' = [run EXCEPT ![Selected] = StartRun(Selected, batch.pending[batch.i])]
    /\ batch' = [batch EXCEPT !.attempted = Append(@, batch.pending[batch.i])]
    /\ UNCHANGED <<_openai_client, simple_store, enriched_store, log>>
    /\ UnchangedEnvironment

\* one node of the run in progress
Stage(name) ==
    LET r == run[Selected] IN
    /\ r.status = "running"
    /\ r.node = name
    /\ \E answers \in AnswerSeqs(name) :
         /\ run' = [run EXCEPT ![Selected] = StepRun(Selected, r, _openai_client, answers)]
         /\ _openai_client' = Node(name, r.state, _openai_client, answers).client
    /\ UNCHANGED <<simple_store, enriched_store, batch, log>>
    /\ UnchangedEnvironment

Ingest == Stage("ingest")
Extract == Stage("extract")
Validate == Stage("validate")
Copywrite == Stage("copywrite")
Localize == Stage("localize")
Publish == Stage("publish")

\* EnrichEnd without the try/except: a failed record ends the loop
EnrichEnd_without_except ==
    LET r == run[Selected] IN
    /\ batch.pc = "loop"
    /\ r.status \in {"returned", "raised"}
    /\ batch' = [batch EXCEPT !.i = IF r.status = "returned" THEN @ + 1 ELSE Len(batch.pending) + 1,
                              !.processed = IF r.status = "returned" THEN Append(@, r.result) ELSE @,
                              !.outcomes = Append(@, [status |-> r.status, result |-> r.result])]
    /\ run' = [run EXCEPT ![Selected] = IdleRun]
    /\ UNCHANGED <<_openai_client, simple_store, enriched_store, log>>
    /\ UnchangedEnvironment

\* pipeline.py:585-589: the result is collected, or the failure logged
EnrichEnd ==
    LET r == run[Selected] IN
    /\ batch.pc = "loop"
    /\ r.status \in {"returned", "raised"}
    /\ batch' = [batch EXCEPT !.i = @ + 1,
                              !.processed = IF r.status = "returned" THEN Append(@, r.result) ELSE @,
                              !.outcomes = Append(@, [status |-> r.status, result |-> r.result])]
    /\ run' = [run EXCEPT ![Selected] = IdleRun]
    /\ UNCHANGED <<_openai_client, simple_store, enriched_store, log>>
    /\ UnchangedEnvironment

\* Return without the test of pipeline.py:591: the catalog is written
\* whether or not a record was produced
Return_writing_always ==
    /\ batch.pc = "loop"
    /\ batch.i > Len(batch.pending)
    /\ run[Selected].status = "idle"
    /\ LET new_records == [k \in 1..Len(batch.processed) |-> batch.processed[k].enriched]
           written == append_unique_records(batch.enriched_records, new_records, "sku")
           writes == written.exc = NoExc
       IN /\ enriched_store' = IF writes THEN write_json_array(written.appended)
                                  ELSE enriched_store
          /\ batch' = [batch EXCEPT !.pc = "done", !.wrote = writes, !.exc = written.exc]
          /\ log' = Append(log,
                           [process_all |-> batch.process_all,
                            pending |-> batch.pending,
                            returned |-> Len(batch.processed),
                            appended |-> IF writes
                                         THEN SubSeq(written.appended,
                                                     Len(batch.enriched_records) + 1,
                                                     Len(written.appended))
                                         ELSE <<>>])
    /\ UNCHANGED <<_openai_client, simple_store, run>>
    /\ UnchangedEnvironment

\* pipeline.py:591-598: persist what was produced and return
Return ==
    /\ batch.pc = "loop"
    /\ batch.i > Len(batch.pending)
    /\ run[Selected].status = "idle"
    /\ LET new_records == [k \in 1..Len(batch.processed) |-> batch.processed[k].enriched]
           written == append_unique_records(batch.enriched_records, new_records, "sku")
           writes == batch.processed # <<>> /\ written.exc = NoExc
       IN /\ enriched_store' = IF writes THEN write_json_array(written.appended)
                                  ELSE enriched_store
          /\ batch' = [batch EXCEPT !.pc = "done", !.wrote = writes,
                                    !.exc = IF batch.processed # <<>> THEN written.exc ELSE NoExc]
          /\ log' = Append(log,
                           [process_all |-> batch.process_all,
                            pending |-> batch.pending,
                            returned |-> Len(batch.processed),
                            appended |-> IF writes
                                         THEN SubSeq(written.appended,
                                                     Len(batch.enriched_records) + 1,
                                                     Len(written.appended))
                                         ELSE <<>>])
    /\ UNCHANGED <<_openai_client, simple_store, run>>
    /\ UnchangedEnvironment

Next ==
    \/ Invoke
    \/ EnrichStart
    \/ Ingest
    \/ Extract
    \/ Validate
    \/ Copywrite
    \/ Localize
    \/ Publish
    \/ EnrichEnd
    \/ Return

Spec == Init /\ [][Next]_vars

(***************************************************************************)
(* main of scripts/run_enrichment.py: the command line runs                *)
(* process_pending_products once on the two catalog files, with or without *)
(* --dry-run and --all.                                                    *)
(***************************************************************************)
\* the records of the simple catalog of a command-line run
CliProducts ==
    {MakeProduct(JStr("A"), JStr("Bottle"), JNum(10), JStr("Outdoors")),
     MakeProduct(JStr("B"), JStr("Bottle"), JNum(10), JStr("Outdoors")),
     MakeProduct(JStr("B"), JStr(""), JNum(10), JStr("Outdoors"))}

InitCli ==
    /\ InitEnvironment(BatchEnvironments)
    /\ simple_store \in {NoFile, Unparsable}
                        \cup {JList(c) : c \in SeqsUpTo(CliProducts, MaxSimple)}
    /\ enriched_store \in {NoFile} \cup CorruptStores
                          \cup {JList(c) : c \in SeqsUpTo(StoredRecords, MaxEnriched)}
    /\ batch = IdleBatch
    /\ run = [s \in Strategies |-> IdleRun]
    /\ log = <<>>
    /\ pure = NoPure
    /\ traced = NoTraced
    /\ workers = NoWorkers
    /\ clock = NoClock
    /\ cli = NoCli

\* run_enrichment.py:96-108: the arguments are parsed; in dry-run mode the
\* enriched catalog is read with json.loads ([] when the file is missing),
\* which raises on text that is not JSON and accepts any JSON value
CliStart ==
    /\ cli.pc = "start"
    /\ \E dry_run \in BOOLEAN, all \in BOOLEAN :
         cli' = IF dry_run /\ enriched_store = Unparsable
                THEN [NoCli EXCEPT !.pc = "raised", !.dry_run = dry_run, !.all = all,
                                   !.exc = Exc("JSONDecodeError")]
                ELSE [NoCli EXCEPT !.pc = "processing", !.dry_run = dry_run, !.all = all,
                                   !.original_enriched =
                                       IF ~dry_run THEN JNull
                                       ELSE IF enriched_store = NoFile THEN JList(<<>>)
                                       ELSE enriched_store]
    /\ UNCHANGED <<_openai_client, simple_store, enriched_store, batch, run, log>>
    /\ UnchangedEnvironment_but_cli

\* run_enrichment.py:110-114: process_pending_products is entered, with
\* process_all=args.all
CliInvoke ==
    /\ cli.pc = "processing"
    /\ batch.pc = "idle"
    /\ Invoke
    /\ batch'.process_all = cli.all

\* run_enrichment.py:110-114: an exception of process_pending_products is
\* not caught: main ends with it, before line 116
CliRaise ==
    /\ cli.pc = "processing"
    /\ batch.pc = "raised"
    /\ cli' = [cli EXCEPT !.pc = "raised", !.exc = batch.exc]
    /\ UNCHANGED <<_openai_client, simple_store, enriched_store, batch, run, log>>
    /\ UnchangedEnvironment_but_cli

\* run_enrichment.py:116-130: after process_pending_products has returned,
\* a dry run writes original_enriched over the enriched catalog; the
\* results are printed and main returns 0
CliReturn ==
    /\ cli.pc = "processing"
    /\ batch.pc = "done"
    /\ enriched_store' = IF cli.dry_run /\ cli.original_enriched # JNull
                         THEN cli.original_enriched
                         ELSE enriched_store
    /\ cli' = [cli EXCEPT !.pc = "returned"]
    /\ UNCHANGED <<_openai_client, simple_store, batch, run, log>>
    /\ UnchangedEnvironment_but_cli

NextCli ==
    \/ CliStart
    \/ CliInvoke
    \/ EnrichStart
    \/ Ingest
    \/ Extract
    \/ Validate
    \/ Copywrite
    \/ Localize
    \/ Publish
    \/ EnrichEnd
    \/ Return
    \/ CliRaise
    \/ CliReturn

SpecCli == InitCli /\ [][NextCli]_vars

(***************************************************************************)
(* enrich_product called on its own, as the API and the tests call it.     *)
(***************************************************************************)
InitRun ==
    /\ InitEnvironment(Environments)
    /\ simple_store = JList(<<>>)
    /\ enriched_store = JList(<<>>)
    /\ batch = IdleBatch
    /\ run = [s \in Strategies |-> IdleRun]
    /\ log = <<>>
    /\ pure = NoPure
    /\ traced = NoTraced
    /\ workers = NoWorkers
    /\ clock = NoClock
    /\ cli = NoCli

\* pipeline.py:524-538: enrich_product(product) is entered
Call ==
    /\ batch.pc = "idle"
    /\ \A s \in Strategies : run[s].status = "idle"
    /\ \E product \in Products :
         run' = [run EXCEPT ![Selected] = StartRun(Selected, product)]
    /\ UNCHANGED <<_openai_client, simple_store, enriched_store, batch, log>>
    /\ UnchangedEnvironment

\* the caller has taken the result or the exception
CallEnd ==
    /\ batch.pc = "idle"
    /\ run[Selected].status \in {"returned", "raised"}
    /\ run' = [run EXCEPT ![Selected] = IdleRun]
    /\ UNCHANGED <<_openai_client, simple_store, enriched_store, batch, log>>
    /\ UnchangedEnvironment

NextRun ==
    \/ Call
    \/ Ingest
    \/ Extract
    \/ Validate
    \/ Copywrite
    \/ Localize
    \/ Publish
    \/ CallEnd

SpecRun == InitRun /\ [][NextRun]_vars

(***************************************************************************)
(* The two strategies side by side: the same product is given to both and  *)
(* each call of the capability gets the same answer in both.               *)
(***************************************************************************)
EqCall ==
    /\ \A s \in Strategies : run[s].status = "idle"
    /\ \E product \in Products :
         run' = [s \in Strategies |-> StartRun(s, product)]
    /\ UNCHANGED <<_openai_client, simple_store, enriched_store, batch, log>>
    /\ UnchangedEnvironment

EqStage ==
    /\ \E name \in DOMAIN Edges :
         /\ \E s \in Strategies : run[s].status = "running" /\ run[s].node = name
         /\ \E answers \in AnswerSeqs(name) :
              /\ run' = [s \in Strategies |->
                            IF run[s].status = "running" /\ run[s].node = name
                            THEN StepRun(s, run[s], _openai_client, answers)
                            ELSE run[s]]
              /\ _openai_client' =
                    LET s == CHOOSE t \in Strategies :
                                 run[t].status = "running" /\ run[t].node = name
                    IN Node(name, run[s].state, _openai_client, answers).client
    /\ UNCHANGED <<simple_store, enriched_store, batch, log>>
    /\ UnchangedEnvironment

EqEnd ==
    /\ \A s \in Strategies : run[s].status \in {"returned", "raised"}
    /\ run' = [s \in Strategies |-> IdleRun]
    /\ UNCHANGED <<_openai_client, simple_store, enriched_store, batch, log>>
    /\ UnchangedEnvironment

NextEq ==
    \/ EqCall
    \/ EqStage
    \/ EqEnd

SpecEq == InitRun /\ [][NextEq]_vars

(***************************************************************************)
(* enrich_product under every tracing setting side by side: the same       *)
(* product is given to each and each call of the capability gets the same  *)
(* answer in all.                                                          *)
(***************************************************************************)
\* pipeline.py:101-117, called once when the graph is built (pipeline.py:128)
_configure_langsmith(setting) ==
    IF ~setting[1] THEN FALSE
    ELSE IF setting[2] = Absent THEN FALSE
    ELSE Truthy(setting[2])

\* pipeline.py:530: os.getenv("LANGSMITH_API_KEY") is not None
langsmith_configured(setting) == setting[2] # Absent

\* pipeline.py:541-549: the config given to graph.invoke, None when it is
\* called with the state alone
invoke_config(setting, product) ==
    IF langsmith_configured(setting) /\ setting[1]
    THEN [run_name |-> <<"enrich_product_", Get(product, "sku", JStr("UNKNOWN"))>>,
          metadata |-> [sku |-> Get(product, "sku", JStr("UNKNOWN"))]]
    ELSE JNull

\* TracedStart with a graph run failing when tracing is not configured
TracedStart_requiring_tracing(s, product, setting) ==
    IF s = "graph" /\ ~langsmith_configured(setting)
    THEN [StartRun(s, product) EXCEPT !.status = "raised", !.exc = Exc("RuntimeError")]
         @@ [debug |-> FALSE, config |-> JNull]
    ELSE StartRun(s, product)
         @@ [debug |-> s = "graph" /\ _configure_langsmith(setting),
             config |-> IF s = "graph" THEN invoke_config(setting, product) ELSE JNull]

\* pipeline.py:528-555: the run enrich_product starts under a tracing
\* setting; debug is the flag the graph was compiled with (pipeline.py:149-153)
TracedStart(s, product, setting) ==
    StartRun(s, product)
    @@ [debug |-> s = "graph" /\ _configure_langsmith(setting),
        config |-> IF s = "graph" THEN invoke_config(setting, product) ELSE JNull]

TraceCall ==
    /\ \A t \in TraceSettings : traced[t].status = "idle"
    /\ \E product \in Products :
         traced' = [t \in TraceSettings |-> TracedStart(Selected, product, t)]
    /\ UNCHANGED <<_openai_client, simple_store, enriched_store, batch, run, log>>
    /\ UNCHANGED <<LANGGRAPH_AVAILABLE, OPENAI_AVAILABLE, OPENAI_API_KEY, backend, pure, workers,
                   clock, cli>>

TraceStage ==
    /\ \E name \in DOMAIN Edges :
         /\ \E t \in TraceSettings : traced[t].status = "running" /\ traced[t].node = name
         /\ \E answers \in AnswerSeqs(name) :
              /\ traced' = [t \in TraceSettings |->
                               IF traced[t].status = "running" /\ traced[t].node = name
                               THEN StepRun(Selected, traced[t], _openai_client, answers)
                               ELSE traced[t]]
              /\ _openai_client' =
                    LET t == CHOOSE u \in TraceSettings :
                                 traced[u].status = "running" /\ traced[u].node = name
                    IN Node(name, traced[t].state, _openai_client, answers).client
    /\ UNCHANGED <<simple_store, enriched_store, batch, run, log>>
    /\ UNCHANGED <<LANGGRAPH_AVAILABLE, OPENAI_AVAILABLE, OPENAI_API_KEY, backend, pure, workers,
                   clock, cli>>

TraceEnd ==
    /\ \A t \in TraceSettings : traced[t].status \in {"returned", "raised"}
    /\ traced' = NoTraced
    /\ UNCHANGED <<_openai_client, simple_store, enriched_store, batch, run, log>>
    /\ UNCHANGED <<LANGGRAPH_AVAILABLE, OPENAI_AVAILABLE, OPENAI_API_KEY, backend, pure, workers,
                   clock, cli>>

NextTrace ==
    \/ TraceCall
    \/ TraceStage
    \/ TraceEnd

SpecTrace == InitRun /\ [][NextTrace]_vars

(***************************************************************************)
(* Invocations that share the two catalog files: process_pending_products  *)
(* (the CLI) and save_to_catalogs (the API), each in a process of its own, *)
(* interleaved at their reads and writes of the files.  No client is       *)
(* configured, so every run takes the fallback path.  Here log is the      *)
(* history of the loads and writes of the enriched catalog.                *)
(***************************************************************************)
RECURSIVE RunToEnd(_, _)
\* the stages of a run one after the other until it returns or raises
RunToEnd(s, r) ==
    IF r.status # "running" THEN r
    ELSE CHOOSE end \in {RunToEnd(s, next) : next \in {StepRun(s, r, _openai_client, <<>>)}} : TRUE

\* pipeline.py:524-569, the whole call
enrich_product(product) == RunToEnd(Selected, StartRun(Selected, product))

RECURSIVE ProcessLoop(_)
\* the loop of pipeline.py:582-589: the results of the records that succeeded
ProcessLoop(pending) ==
    IF pending = <<>> THEN <<>>
    ELSE CHOOSE processed \in
             {(IF r.status = "returned" THEN <<r.result>> ELSE <<>>) \o rest :
                  r \in {enrich_product(Head(pending))}, rest \in {ProcessLoop(Tail(pending))}} :
             TRUE

\* the records of the simple catalog and the products posted to the API
SharedProducts ==
    {MakeProduct(JStr("A"), JStr("Bottle"), JNum(10), JStr("Outdoors")),
     MakeProduct(JStr("B"), JStr("Bottle"), JNum(10), JStr("Outdoors"))}

IdleWorker ==
    [kind |-> "batch", pc |-> "idle", process_all |-> FALSE, simple_product |-> <<>>,
     enriched_product |-> <<>>, simple_records |-> <<>>, enriched_records |-> <<>>,
     pending |-> <<>>, persisted |-> <<>>]

\* the invocations that can be started: the CLI with or without --all, and
\* main.py:119-122 with the product posted and its enriched record
Invocations ==
    {[IdleWorker EXCEPT !.process_all = process_all] : process_all \in BOOLEAN}
    \cup {[IdleWorker EXCEPT !.kind = "save", !.simple_product = product,
                             !.enriched_product = enrich_product(product).result.enriched] :
             product \in SharedProducts}

InitConcurrent ==
    /\ InitEnvironment({<<TRUE, JNull>>})
    /\ simple_store \in {JList(c) : c \in SeqsUpTo(SharedProducts, MaxSimple)}
    /\ enriched_store \in {NoFile, JList(<<>>)}
    /\ batch = IdleBatch
    /\ run = [s \in Strategies |-> IdleRun]
    /\ log = <<>>
    /\ pure = NoPure
    /\ traced = NoTraced
    /\ workers \in [1..MaxWorkers -> Invocations]
    /\ clock = NoClock
    /\ cli = NoCli

UnchangedByWorkers ==
    /\ UNCHANGED <<LANGGRAPH_AVAILABLE, OPENAI_AVAILABLE, OPENAI_API_KEY, _openai_client, backend>>
    /\ UNCHANGED <<batch, run, pure, traced, clock, cli>>

\* the records a write added after the existing ones
Added(existing, written) == SubSeq(written, Len(existing) + 1, Len(written))

\* pipeline.py:574-580
BatchLoad(p) ==
    /\ workers[p].kind = "batch"
    /\ workers[p].pc = "idle"
    /\ LET simple_records == load_json_array(simple_store).data
           enriched_records == load_json_array(enriched_store).data
       IN workers' = [workers EXCEPT ![p] =
                         [@ EXCEPT !.pc = "loaded",
                                   !.simple_records = simple_records,
                                   !.enriched_records = enriched_records,
                                   !.pending = Pending(simple_records, enriched_records,
                                                       workers[p].process_all)]]
    /\ log' = Append(log, [worker |-> p, op |-> "load"])
    /\ UNCHANGED <<simple_store, enriched_store>>
    /\ UnchangedByWorkers

\* BatchWrite writing the new records alone
BatchWrite_dropping_existing(p) ==
    /\ workers[p].kind = "batch"
    /\ workers[p].pc = "loaded"
    /\ \E processed \in {ProcessLoop(workers[p].pending)} :
       \E new_records \in {[k \in 1..Len(processed) |-> processed[k].enriched]} :
       \E written \in {append_unique_records(<<>>, new_records, "sku")} :
          /\ enriched_store' = IF processed # <<>> THEN write_json_array(written.appended)
                                  ELSE enriched_store
          /\ workers' = [workers EXCEPT ![p] =
                            [@ EXCEPT !.pc = "done",
                                      !.persisted = IF processed # <<>> THEN written.appended
                                                    ELSE <<>>]]
          /\ log' = IF processed # <<>> THEN Append(log, [worker |-> p, op |-> "write"])
                     ELSE log
    /\ UNCHANGED simple_store
    /\ UnchangedByWorkers

\* pipeline.py:582-598
BatchWrite(p) ==
    /\ workers[p].kind = "batch"
    /\ workers[p].pc = "loaded"
    /\ \E processed \in {ProcessLoop(workers[p].pending)} :
       \E new_records \in {[k \in 1..Len(processed) |-> processed[k].enriched]} :
       \E written \in {append_unique_records(workers[p].enriched_records, new_records, "sku")} :
          /\ enriched_store' = IF processed # <<>> THEN write_json_array(written.appended)
                                  ELSE enriched_store
          /\ workers' = [workers EXCEPT ![p] =
                            [@ EXCEPT !.pc = "done",
                                      !.persisted = IF processed # <<>>
                                                    THEN Added(workers[p].enriched_records,
                                                               written.appended)
                                                    ELSE <<>>]]
          /\ log' = IF processed # <<>> THEN Append(log, [worker |-> p, op |-> "write"])
                     ELSE log
    /\ UNCHANGED simple_store
    /\ UnchangedByWorkers

\* main.py:262
SaveLoadSimple(p) ==
    /\ workers[p].kind = "save"
    /\ workers[p].pc = "idle"
    /\ workers' = [workers EXCEPT ![p] =
                      [@ EXCEPT !.pc = "simple loaded",
                                !.simple_records = load_json_array(simple_store).data]]
    /\ UNCHANGED <<simple_store, enriched_store, log>>
    /\ UnchangedByWorkers

\* main.py:263-268
SaveWriteSimple(p) ==
    /\ workers[p].kind = "save"
    /\ workers[p].pc = "simple loaded"
    /\ simple_store' = write_json_array(
                           append_unique_records(workers[p].simple_records,
                                                 <<workers[p].simple_product>>, "sku").appended)
    /\ workers' = [workers EXCEPT ![p] = [@ EXCEPT !.pc = "simple written"]]
    /\ UNCHANGED <<enriched_store, log>>
    /\ UnchangedByWorkers

\* main.py:271
SaveLoadEnriched(p) ==
    /\ workers[p].kind = "save"
    /\ workers[p].pc = "simple written"
    /\ workers' = [workers EXCEPT ![p] =
                      [@ EXCEPT !.pc = "loaded",
                                !.enriched_records = load_json_array(enriched_store).data]]
    /\ log' = Append(log, [worker |-> p, op |-> "load"])
    /\ UNCHANGED <<simple_store, enriched_store>>
    /\ UnchangedByWorkers

\* main.py:272-277
SaveWriteEnriched(p) ==
    /\ workers[p].kind = "save"
    /\ workers[p].pc = "loaded"
    /\ LET written == append_unique_records(workers[p].enriched_records,
                                            <<workers[p].enriched_product>>, "sku")
       IN /\ enriched_store' = write_json_array(written.appended)
          /\ workers' = [workers EXCEPT ![p] =
                            [@ EXCEPT !.pc = "done",
                                      !.persisted = Added(workers[p].enriched_records,
                                                          written.appended)]]
    /\ log' = Append(log, [worker |-> p, op |-> "write"])
    /\ UNCHANGED simple_store
    /\ UnchangedByWorkers

NextConcurrent ==
    \/ \E p \in DOMAIN workers : BatchLoad(p)
    \/ \E p \in DOMAIN workers : BatchWrite(p)
    \/ \E p \in DOMAIN workers : SaveLoadSimple(p)
    \/ \E p \in DOMAIN workers : SaveWriteSimple(p)
    \/ \E p \in DOMAIN workers : SaveLoadEnriched(p)
    \/ \E p \in DOMAIN workers : SaveWriteEnriched(p)

SpecConcurrent == InitConcurrent /\ [][NextConcurrent]_vars

(***************************************************************************)
(* append_unique_records applied to arbitrary arguments.                   *)
(***************************************************************************)
\* records with equal and different keys, and one without the key
AppendRecords ==
    {[sku |-> JStr("A"), name |-> JStr("Bottle")],
     [sku |-> JStr("A"), name |-> JStr("Flask")],
     [sku |-> JStr("B"), name |-> JStr("Bottle")],
     [name |-> JStr("Bottle")]}

InitAppend ==
    /\ InitEnvironment({<<FALSE, JNull>>})
    /\ LANGGRAPH_AVAILABLE = FALSE
    /\ simple_store = NoFile
    /\ \E existing \in SeqsUpTo(AppendRecords, MaxExisting),
          new_records \in SeqsUpTo(AppendRecords, MaxNew) :
         /\ enriched_store = write_json_array(existing)
         /\ pure = [done |-> FALSE, existing |-> existing, new_records |-> new_records,
                    result |-> JNull]
    /\ batch = IdleBatch
    /\ run = [s \in Strategies |-> IdleRun]
    /\ log = <<>>
    /\ traced = NoTraced
    /\ workers = NoWorkers
    /\ clock = NoClock
    /\ cli = NoCli

\* catalog_io.py:25-38 with write_json_array (catalog_io.py:19-22)
AppendUnique ==
    /\ ~pure.done
    /\ LET written == append_unique_records(pure.existing, pure.new_records, "sku") IN
         /\ pure' = [pure EXCEPT !.done = TRUE, !.result = written]
         /\ enriched_store' = IF written.exc = NoExc THEN write_json_array(written.appended)
                              ELSE enriched_store
    /\ UNCHANGED <<LANGGRAPH_AVAILABLE, OPENAI_AVAILABLE, OPENAI_API_KEY, _openai_client, backend,
                   simple_store, batch, run, log, traced, workers, clock, cli>>

NextAppend == AppendUnique

SpecAppend == InitAppend /\ [][NextAppend]_vars

(***************************************************************************)
(* enrich_product with the timestamps of its events.  WorkflowEvent reads  *)
(* the wall clock when it is created (status.py:14) and every event is     *)
(* appended where it is created, so the readings of one stage are taken in *)
(* the order of its appends.  The wall clock is taken not to be set back   *)
(* during a run: a reading is never earlier than the one before it, and    *)
(* two readings may be equal.  clock.stamps[i] is the timestamp of the     *)
(* i-th event of the run in progress.                                      *)
(***************************************************************************)
\* the readings of n events created one after the other from the given time
Readings(from, n) ==
    IF n <= 0 THEN {<<>>}
    ELSE {r \in [1..n -> from..MaxClock] : \A i \in 1..(n - 1) : r[i] <= r[i + 1]}

\* a product that passes every stage, one that validate rejects, and one on
\* which validate raises after its event
ClockProducts ==
    {MakeProduct(JStr("A"), JStr("Bottle"), JNum(10), JStr("Outdoors")),
     MakeProduct(JStr("A"), JStr(""), JNum(10), JStr("Outdoors")),
     MakeProduct(JStr("A"), JStr("Bottle"), JStr("abc"), JStr("Outdoors"))}

InitClock ==
    /\ LANGGRAPH_AVAILABLE \in BOOLEAN
    /\ \E e \in BatchEnvironments : OPENAI_AVAILABLE = e[1] /\ OPENAI_API_KEY = e[2]
    /\ _openai_client = NoClient
    /\ backend \in Backends \ {"any"}
    /\ simple_store = JList(<<>>)
    /\ enriched_store = JList(<<>>)
    /\ batch = IdleBatch
    /\ run = [s \in Strategies |-> IdleRun]
    /\ log = <<>>
    /\ pure = NoPure
    /\ traced = NoTraced
    /\ workers = NoWorkers
    /\ clock = NoClock
    /\ cli = NoCli

UnchangedByClock ==
    /\ UNCHANGED <<LANGGRAPH_AVAILABLE, OPENAI_AVAILABLE, OPENAI_API_KEY, backend>>
    /\ UNCHANGED <<simple_store, enriched_store, batch, log, pure, traced, workers, cli>>

\* pipeline.py:524-538: enrich_product(product) is entered with a new list
ClockCall ==
    /\ \A s \in Strategies : run[s].status = "idle"
    /\ \E product \in ClockProducts :
         run' = [run EXCEPT ![Selected] = StartRun(Selected, product)]
    /\ clock' = [clock EXCEPT !.stamps = <<>>]
    /\ UNCHANGED _openai_client
    /\ UnchangedByClock

\* one node of the run in progress; each event it appends is stamped with a
\* reading of the clock (status.py:14)
ClockStage ==
    LET r == run[Selected] IN
    /\ r.status = "running"
    /\ \E answers \in AnswerSeqs(r.node) :
       \E next \in {StepRun(Selected, r, _openai_client, answers)} :
       \E readings \in Readings(clock.now,
                                Len(next.state["events"]) - Len(r.state["events"])) :
          /\ run' = [run EXCEPT ![Selected] = next]
          /\ _openai_client' = Node(r.node, r.state, _openai_client, answers).client
          /\ clock' = [now |-> IF readings = <<>> THEN clock.now
                               ELSE readings[Len(readings)],
                       stamps |-> clock.stamps \o readings]
    /\ UnchangedByClock

\* the caller has taken the result or the exception
ClockEnd ==
    /\ run[Selected].status \in {"returned", "raised"}
    /\ run' = [run EXCEPT ![Selected] = IdleRun]
    /\ UNCHANGED <<_openai_client, clock>>
    /\ UnchangedByClock

NextClock ==
    \/ ClockCall
    \/ ClockStage
    \/ ClockEnd

SpecClock == InitClock /\ [][NextClock]_vars

(***************************************************************************)
(* _convert_units applied to arbitrary arguments.                          *)
(***************************************************************************)
\* the keys that convert and some that do not
UnitKeys == {"capacity", "volume", "weight", "color", "pack_size", "category"}

\* strings with and without a unit token, with a number or other text
\* before it, and values that are not strings
UnitValues ==
    {JStr(text) : text \in {"20 oz", "20 OZ", "abc oz", "oz", "10 lb", "abc lb", "6", "Raw", ""}}
    \cup {JNull, JNum(20), JBool(TRUE), JList(<<JStr("20 oz")>>),
          JDict(<< <<"value", JStr("20 oz")>> >>)}

InitUnits ==
    /\ InitEnvironment({<<FALSE, JNull>>})
    /\ LANGGRAPH_AVAILABLE = FALSE
    /\ simple_store = NoFile
    /\ enriched_store = NoFile
    /\ \E key \in UnitKeys, value \in UnitValues :
         pure = [done |-> FALSE, key |-> key, value |-> value, result |-> JNull]
    /\ batch = IdleBatch
    /\ run = [s \in Strategies |-> IdleRun]
    /\ log = <<>>
    /\ traced = NoTraced
    /\ workers = NoWorkers
    /\ clock = NoClock
    /\ cli = NoCli

\* pipeline.py:314-332
ConvertUnits ==
    /\ ~pure.done
    /\ pure' = [pure EXCEPT !.done = TRUE, !.result = _convert_units(pure.key, pure.value)]
    /\ UNCHANGED <<LANGGRAPH_AVAILABLE, OPENAI_AVAILABLE, OPENAI_API_KEY, _openai_client, backend,
                   simple_store, enriched_store, batch, run, log, traced, workers, clock, cli>>

NextUnits == ConvertUnits

SpecUnits == InitUnits /\ [][NextUnits]_vars

(***************************************************************************)
(* process_pending_products called again and again without --all on a     *)
(* simple catalog that nobody changes, with no client configured.  Every   *)
(* call that is started runs to its end, and a next call is started as     *)
(* long as the bound on the calls allows.                                  *)
(***************************************************************************)
InitRepeat ==
    /\ InitEnvironment({<<TRUE, JNull>>})
    /\ simple_store \in {JList(c) : c \in SeqsUpTo(CatalogProducts, MaxSimple)}
    /\ enriched_store \in {NoFile} \cup {JList(c) : c \in SeqsUpTo(StoredRecords, MaxEnriched)}
    /\ batch = IdleBatch
    /\ run = [s \in Strategies |-> IdleRun]
    /\ log = <<>>
    /\ pure = NoPure
    /\ traced = NoTraced
    /\ workers = NoWorkers
    /\ clock = NoClock
    /\ cli = NoCli

\* run_enrichment.py:110-114 without --all: process_all is False
RepeatInvoke ==
    /\ Invoke
    /\ ~batch'.process_all

NextRepeat ==
    \/ RepeatInvoke
    \/ EnrichStart
    \/ Ingest
    \/ Extract
    \/ Validate
    \/ Copywrite
    \/ Localize
    \/ Publish
    \/ EnrichEnd
    \/ Return

SpecRepeat == InitRepeat /\ [][NextRepeat]_vars /\ WF_vars(NextRepeat)

(***************************************************************************)
(* Properties.                                                             *)
(***************************************************************************)
Range(seq) == {seq[i] : i \in 1..Len(seq)}

IsPrefix(a, b) == Len(a) <= Len(b) /\ SubSeq(b, 1, Len(a)) = a

\* the elements of seq at the positions in I, in the order of seq
SubSeqAt(seq, I) ==
    LET idx == SelectSeq([k \in 1..Len(seq) |-> k], LAMBDA k : k \in I)
    IN [n \in 1..Len(idx) |-> seq[idx[n]]]

Finished(s) == run[s].status \in {"returned", "raised"}

EventsOf(s) == run[s].state["events"]

\* C1: in every run, under either strategy, the stages started so far are a
\* prefix of ingest, extract, validate, copywrite, localize, publish (none
\* skipped, repeated or out of order), the stage about to run is the next one
\* of that order, and a run that returned or reached publish ran all six.
C1_StagesInOrder ==
    \A s \in Strategies :
        /\ IsPrefix(run[s].started, WORKFLOW_STEPS)
        /\ (run[s].status = "running" =>
                /\ Len(run[s].started) < Len(WORKFLOW_STEPS)
                /\ run[s].node = WORKFLOW_STEPS[Len(run[s].started) + 1])
        /\ (run[s].status = "returned" => run[s].started = WORKFLOW_STEPS)
        /\ ("publish" \in Range(run[s].started) => run[s].started = WORKFLOW_STEPS)

C1_Witness ==
    /\ run["graph"].status = "returned"
    /\ run["graph"].started = WORKFLOW_STEPS

\* C2: in the event log returned by a successful run, whatever the capability
\* did, an earlier event never has a step that comes later in WORKFLOW_STEPS
\* than the step of a later event.
C2_EventsNeverReordered ==
    \A s \in Strategies :
        run[s].status = "returned" =>
            LET events == run[s].result.events IN
            \A i, j \in 1..Len(events) :
                i < j => StepIndex(events[i].step) <= StepIndex(events[j].step)

C2_Witness ==
    \E s \in Strategies :
        /\ run[s].status = "returned"
        /\ \E i, j \in 1..Len(run[s].result.events) :
             /\ run[s].result.events[i].message.text = "AI extraction failed, using fallback"
             /\ run[s].result.events[j].message.text = "Localization failed for "

\* C3: a run on a product missing sku, name or price ends with the
\* validation error, without enriched output and without copywrite, localize
\* or publish having run, and the last event of its log is a validate event
\* with payload status error.
C3_MissingFieldFailsInValidate ==
    \A s \in Strategies :
        (Finished(s) /\ MissingFields(run[s].product) # <<>>) =>
            /\ run[s].status = "raised"
            /\ run[s].exc.type = "ValueError"
            /\ "missing" \in DOMAIN run[s].exc
            /\ "enriched" \notin DOMAIN run[s].state
            /\ Range(run[s].started) \cap {"copywrite", "localize", "publish"} = {}
            /\ EventsOf(s) # <<>>
            /\ EventsOf(s)[Len(EventsOf(s))].step = "validate"
            /\ EventsOf(s)[Len(EventsOf(s))].payload = [status |-> "error"]

\* C4: given the same product and the same answers of the capability, the
\* graph strategy and the sequential strategy fail on the same inputs in the
\* same way, and when they return their enriched values agree in sku,
\* normalized_attributes, seo, localizations and pricing.
C4_StrategiesEquivalent ==
    (\A s \in Strategies : Finished(s)) =>
        /\ run["graph"].status = run["sequential"].status
        /\ run["graph"].exc = run["sequential"].exc
        /\ run["graph"].status = "returned" =>
              \A field \in {"sku", "normalized_attributes", "seo", "localizations", "pricing"} :
                  run["graph"].result.enriched[field] = run["sequential"].result.enriched[field]

C4_Witness ==
    /\ \A s \in Strategies : run[s].status = "returned"
    /\ Len(run["graph"].result.enriched["localizations"].list) = 3
    /\ run["graph"].result.enriched["seo"] = SeoJson

\* the outcomes of the calls of enrich_product that returned, in call order
Succeeded == SelectSeq(batch.outcomes, LAMBDA o : o.status = "returned")
SucceededEnriched == [k \in 1..Len(Succeeded) |-> Succeeded[k].result.enriched]

\* what C5 says of the caller and of the returned sequence
C5_Isolation ==
    /\ batch.exc = NoExc
    /\ batch.attempted = batch.pending
    /\ Len(batch.outcomes) = Len(batch.pending)
    /\ \A k \in 1..Len(batch.outcomes) :
          batch.outcomes[k].status = "returned" =>
              batch.outcomes[k].result.original = batch.pending[k]
    /\ batch.processed = [k \in 1..Len(Succeeded) |-> Succeeded[k].result]

\* C5 as claimed: process_pending_products does not raise because a record
\* failed, attempts every pending record, returns exactly the outputs of the
\* records that succeeded, in pending order, and the enriched catalog
\* receives exactly those records.
C5_CatalogReceivesAllSucceeded ==
    batch.pc = "done" =>
        /\ C5_Isolation
        /\ load_json_array(enriched_store).data = batch.enriched_records \o SucceededEnriched

\* C5 as amended: the same, except that the enriched catalog receives the
\* succeeded records without those whose sku is the sku of an earlier
\* succeeded record of the same call.
C5_CatalogReceivesFirstPerSku ==
    batch.pc = "done" =>
        /\ C5_Isolation
        /\ load_json_array(enriched_store).data =
              batch.enriched_records \o
              SubSeqAt(SucceededEnriched,
                       {k \in 1..Len(SucceededEnriched) :
                           \A j \in 1..(k - 1) : SucceededEnriched[j].sku # SucceededEnriched[k].sku})

C5_Witness ==
    /\ batch.pc = "done"
    /\ \E j, k \in 1..Len(batch.outcomes) :
          /\ j < k
          /\ batch.outcomes[j].status = "raised"
          /\ batch.outcomes[k].status = "returned"
    /\ Len(load_json_array(enriched_store).data) > Len(batch.enriched_records)

\* a record that is a Product of the data model: sku, name and price present
\* and not blank, price a number, category a string when present
ValidProduct(product) ==
    /\ MissingFields(product) = <<>>
    /\ DOMAIN product["price"] = {"num"}
    /\ IsStr(Get(product, "category", JStr("general")))

\* C6: of two successive calls with process_all on the same catalogs, with a
\* valid record pending at the first, the first returns a non-empty result
\* and the second an empty one; and the records all the calls appended have
\* pairwise different skus.
C6_SecondRunEmpty ==
    /\ \A i \in 1..(Len(log) - 1) :
          (/\ log[i].process_all
           /\ log[i + 1].process_all
           /\ \E k \in 1..Len(log[i].pending) : ValidProduct(log[i].pending[k]))
          => (log[i].returned > 0 /\ log[i + 1].returned = 0)
    /\ \A i, j \in 1..Len(log) :
          \A a \in 1..Len(log[i].appended), b \in 1..Len(log[j].appended) :
              (i # j \/ a # b) => log[i].appended[a].sku # log[j].appended[b].sku

\* the positions of the simple catalog whose sku no enriched record has
SimpleCatalog == load_json_array(simple_store).data

PendingPositions ==
    {k \in 1..Len(SimpleCatalog) :
        \A j \in 1..Len(batch.enriched_records) :
            Get(batch.enriched_records[j], "sku", JNull) # Get(SimpleCatalog[k], "sku", JNull)}

\* C7: the records passed to enrich_product are, with process_all, the simple
\* records whose sku no enriched record has, in catalog order, and without
\* process_all only the last of them (none when there is none), so that at
\* most one record is returned and at most one is added to the catalog.
C7_AttemptsExactlyPending ==
    batch.pc = "done" =>
        IF batch.process_all
        THEN batch.attempted = SubSeqAt(SimpleCatalog, PendingPositions)
        ELSE /\ batch.attempted =
                   IF PendingPositions = {} THEN <<>>
                   ELSE <<SimpleCatalog[CHOOSE k \in PendingPositions :
                                           \A j \in PendingPositions : j <= k]>>
             /\ Len(batch.processed) <= 1
             /\ Len(load_json_array(enriched_store).data) <= Len(batch.enriched_records) + 1

C7_Witness ==
    /\ batch.pc = "done"
    /\ ~batch.process_all
    /\ Cardinality(PendingPositions) >= 2
    /\ Len(batch.processed) = 1

\* C8: a run on a product that passed validation (validate returned, so
\* copywrite was started) does not fail, whatever the capability answers in
\* extract, copywrite and localize.
C8_NoFailureAfterValidation ==
    \A s \in Strategies :
        run[s].status = "raised" => "copywrite" \notin Range(run[s].started)

\* the messages that report a fallback or a failure of a stage
FallbackTexts ==
    {"Using fallback attribute extraction", "AI extraction failed, using fallback",
     "Using fallback SEO generation", "AI SEO failed, using fallback",
     "Using fallback localization", "Localization failed for "}
FailureTexts ==
    {"AI extraction failed, using fallback", "AI SEO failed, using fallback",
     "Localization failed for ", "Missing required fields: "}

\* C9: a capability-assisted stage that ran without the capability left an
\* event of its own step reporting the fallback; and the log of a run that
\* failed ends with an event of the failing stage that reports the failure
\* (not a success of that stage, not an event of an earlier stage).
C9_FailureLeavesOwnEvent ==
    \A s \in Strategies :
        /\ \A stage \in Range(run[s].started) \cap {"extract", "copywrite", "localize"} :
              ~Truthy(_get_openai_client(_openai_client)) =>
                  \E i \in 1..Len(EventsOf(s)) :
                      /\ EventsOf(s)[i].step = stage
                      /\ EventsOf(s)[i].message.text \in FallbackTexts
        /\ run[s].status = "raised" =>
              /\ EventsOf(s) # <<>>
              /\ LET last == EventsOf(s)[Len(EventsOf(s))] IN
                   /\ last.step = run[s].started[Len(run[s].started)]
                   /\ \/ last.payload = [status |-> "error"]
                      \/ last.message.text \in FailureTexts

\* C10: when append_unique_records returns, the sequence it wrote and
\* returned is the existing records, unchanged and in order, followed by the
\* new records in input order without those whose key is the key of an
\* existing record or of an earlier new record.
C10_AppendOnlyDedup ==
    (pure.done /\ pure.result.exc = NoExc) =>
        LET existing == pure.existing
            new_records == pure.new_records
            kept == {k \in 1..Len(new_records) :
                        /\ \A j \in 1..Len(existing) :
                              "sku" \in DOMAIN existing[j] => existing[j].sku # new_records[k].sku
                        /\ \A j \in 1..(k - 1) : new_records[j].sku # new_records[k].sku}
        IN /\ pure.result.appended = existing \o SubSeqAt(new_records, kept)
           /\ enriched_store = JList(pure.result.appended)

C10_Witness ==
    /\ pure.done
    /\ pure.result.exc = NoExc
    /\ Len(pure.result.appended) = Len(pure.existing) + 1
    /\ Len(pure.new_records) = 2
    /\ pure.new_records[1].sku = pure.new_records[2].sku

\* C11: after append_unique_records has written the catalog, whatever the
\* sequence stored before, no two persisted records have the same sku.
C11_PersistedDeduplicated ==
    (pure.done /\ pure.result.exc = NoExc) =>
        LET persisted == load_json_array(enriched_store).data IN
        \A i, j \in 1..Len(persisted) :
            (i # j /\ "sku" \in DOMAIN persisted[i] /\ "sku" \in DOMAIN persisted[j])
                => persisted[i].sku # persisted[j].sku

\* a catalog file that is missing or holds a sequence of records
HoldsRecords(store) ==
    \/ store = NoFile
    \/ IsList(store) /\ \A k \in 1..Len(store.list) : IsMapping(store.list[k])

\* C12: while a catalog store holds content that is not a sequence of
\* records, a call of process_pending_products ends with the error of the
\* load, no product is processed and no step writes either catalog; a
\* missing store is read as the empty sequence and is no error.
C12_CorruptStorePropagates ==
    /\ []((~HoldsRecords(simple_store) \/ ~HoldsRecords(enriched_store)) =>
             /\ batch.pc \in {"idle", "raised"}
             /\ batch.pc = "raised" => batch.exc # NoExc
             /\ batch.attempted = <<>> /\ batch.processed = <<>> /\ ~batch.wrote
             /\ \A s \in Strategies : run[s].status = "idle"
             /\ \A k \in 1..Len(log) : log[k].returned = 0 /\ log[k].appended = <<>>)
    /\ []((HoldsRecords(simple_store) /\ HoldsRecords(enriched_store)) => batch.pc # "raised")
    /\ []((simple_store = NoFile /\ batch.pc \in {"loop", "done"}) =>
             batch.simple_records = <<>> /\ batch.pending = <<>>)
    /\ []((enriched_store = NoFile /\ batch.pc \in {"loop", "done"}) =>
             batch.enriched_records = <<>>)
    /\ [][(~HoldsRecords(simple_store) \/ ~HoldsRecords(enriched_store)) =>
             (simple_store' = simple_store /\ enriched_store' = enriched_store)]_vars

C12_Witness ==
    /\ batch.pc = "raised"
    /\ batch.exc = Exc("AttributeError")
    /\ enriched_store = JList(<<JNum(1)>>)
    /\ IsList(simple_store)
    /\ Len(simple_store.list) = MaxSimple

\* a dict value that has all the given keys
HasKeys(value, keys) == IsDict(value) /\ keys \subseteq DictKeys(value.dict)

\* C13: the enriched record of every run that returned has sku, name, a
\* normalized_attributes mapping, seo with title, description and keywords, a
\* non-empty localizations list whose entries have locale, title and
\* description, and pricing with currency, price and in_stock.
C13_EnrichedShape ==
    \A s \in Strategies :
        run[s].status = "returned" =>
            LET enriched == run[s].result.enriched IN
            /\ {"sku", "name", "normalized_attributes", "seo", "localizations", "pricing"}
                  \subseteq DOMAIN enriched
            /\ IsDict(enriched["normalized_attributes"])
            /\ HasKeys(enriched["seo"], {"title", "description", "keywords"})
            /\ IsList(enriched["localizations"])
            /\ enriched["localizations"].list # <<>>
            /\ \A k \in 1..Len(enriched["localizations"].list) :
                  HasKeys(enriched["localizations"].list[k], {"locale", "title", "description"})
            /\ HasKeys(enriched["pricing"], {"currency", "price", "in_stock"})

Ml2oOz(source) ==
    JDict(<< <<"value", JDec(59147)>>, <<"unit", JStr("ml")>>, <<"source", source>> >>)
Kg10Lb(source) ==
    JDict(<< <<"value", JDec(454)>>, <<"unit", JStr("kg")>>, <<"source", source>> >>)

\* the part of C15 about _convert_units itself: 20 oz under capacity or
\* volume, in either letter case, gives 20 * 29.5735 = 591.47 ml, and 10 lb
\* under weight gives 10 * 0.453592 = 4.54 kg, each with the original string
\* as source
C15_ConvertUnits ==
    /\ \A key \in {"capacity", "volume"} :
          /\ _convert_units(key, JStr("20 oz")) = Ml2oOz(JStr("20 oz"))
          /\ _convert_units(key, JStr("20 OZ")) = Ml2oOz(JStr("20 OZ"))
    /\ _convert_units("weight", JStr("10 lb")) = Kg10Lb(JStr("10 lb"))

\* C15: _convert_units converts as stated, and a product attribute capacity
\* "20 oz" is published as 591.47 ml by every run that returns.
C15_CapacityPublishedInMl ==
    /\ C15_ConvertUnits
    /\ \A s \in Strategies :
          (/\ run[s].status = "returned"
           /\ DictGet(Get(run[s].product, "attributes", JDict(<<>>)).dict, "Capacity", JNull)
                 = JStr("20 oz"))
          => DictGet(run[s].result.enriched["normalized_attributes"].dict, "capacity", JNull)
                 = Ml2oOz(JStr("20 oz"))

\* copywrite took the fallback path in the run of strategy s and has returned
FallbackCopywriteDone(s) ==
    /\ run[s].status # "idle"
    /\ "seo" \in DOMAIN run[s].state
    /\ \E k \in 1..Len(EventsOf(s)) : EventsOf(s)[k].message.text = "Generated SEO copy"

\* C16: whenever copywrite took the fallback path, seo.title is the name,
\* " | " and the title-cased category, seo.description is "Buy ", the name,
\* " featuring ", the first normalized attribute value when it is a string
\* and the raw description otherwise, and ".", and seo.keywords is the sorted
\* list of the distinct non-empty values among category and name.
C16_FallbackSeoCopy ==
    \A s \in Strategies :
        FallbackCopywriteDone(s) =>
            LET product == run[s].product
                seo == run[s].state["seo"].dict
                normalized == run[s].state["normalized_attributes"].dict
                name == product["name"]
                category == Get(product, "category", JStr(""))
                raw == Get(product, "description", JStr(""))
                featuring == IF normalized # <<>> /\ IsStr(normalized[1][2])
                             THEN normalized[1][2] ELSE raw
                words == SelectSeq(StrOrder, LAMBDA w : w \in {category.str, name.str} \ {""})
            IN /\ DictGet(seo, "title", JNull)
                     = JFmt(<<name, JStr(" | "), JStr(Title(category.str))>>)
               /\ DictGet(seo, "description", JNull)
                     = JFmt(<<JStr("Buy "), name, JStr(" featuring "), featuring, JStr(".")>>)
               /\ DictGet(seo, "keywords", JNull)
                     = JList([k \in 1..Len(words) |-> JStr(words[k])])

\* the positions of the events of a list that have the given step
StepPositions(events, step) == {i \in 1..Len(events) : events[i].step = step}

\* an event list that holds the events of one run on the product and of no
\* other run: it starts with the one ingest event, which carries the sku of
\* the product, and holds at most one validation event and one publish
\* event, the latter with that sku
OwnEvents(events, product) ==
    /\ events[1] = WorkflowEvent("ingest", Msg("Loaded product"),
                                 [sku |-> Get(product, "sku", JNull)])
    /\ StepPositions(events, "ingest") = {1}
    /\ Cardinality(StepPositions(events, "validate")) <= 1
    /\ Cardinality(StepPositions(events, "publish")) <= 1
    /\ \A i \in StepPositions(events, "publish") :
          events[i].payload = [sku |-> Get(product, "sku", JNull)]

\* C17: in process_pending_products every returned ProcessedProduct has the
\* events of its own run only, from its ingest event to its publish event,
\* both with its own sku, and the list of the run in progress never holds an
\* event of an earlier product, whether that one succeeded or failed.
C17_EventsOwnedByRun ==
    /\ \A k \in 1..Len(batch.processed) :
          LET events == batch.processed[k].events IN
          /\ events # <<>>
          /\ OwnEvents(events, batch.processed[k].original)
          /\ StepPositions(events, "publish") = {Len(events)}
    /\ (run[Selected].status # "idle" /\ EventsOf(Selected) # <<>>) =>
          OwnEvents(EventsOf(Selected), run[Selected].product)
    /\ (run[Selected].status = "running" /\ run[Selected].started = <<>>) =>
          EventsOf(Selected) = <<>>

C17_Witness ==
    /\ batch.pc = "done"
    /\ Len(batch.processed) = 2
    /\ batch.processed[1].sku # batch.processed[2].sku
    /\ batch.processed[1].events # batch.processed[2].events

\* a run that failed is followed by a run that returned with its own events
C17_WitnessAfterFailure ==
    /\ batch.pc = "loop"
    /\ batch.outcomes # <<>>
    /\ batch.outcomes[Len(batch.outcomes)].status = "raised"
    /\ run[Selected].status = "returned"

\* the position in the history of the load or write of the enriched catalog
\* by invocation p, 0 when it has made none
OpAt(p, op) ==
    IF \E k \in 1..Len(log) : log[k] = [worker |-> p, op |-> op]
    THEN CHOOSE k \in 1..Len(log) : log[k] = [worker |-> p, op |-> op]
    ELSE 0

\* invocation p persisted a record that the enriched catalog no longer holds
LostUpdate(p) ==
    \E k \in 1..Len(workers[p].persisted) :
        \A j \in 1..Len(load_json_array(enriched_store).data) :
            load_json_array(enriched_store).data[j].sku # workers[p].persisted[k].sku

\* C18: the load and the write of the enriched catalog by one invocation are
\* separate steps, and a record that an invocation persisted is missing from
\* the catalog exactly through that gap: another invocation loaded the
\* catalog before the record was written and wrote its own list after.  The
\* witness is the lost update itself.
C18_LostOnlyBetweenLoadAndWrite ==
    \A p \in DOMAIN workers :
        LostUpdate(p) =>
            \E q \in DOMAIN workers \ {p} :
                /\ 0 < OpAt(q, "load")
                /\ OpAt(q, "load") < OpAt(p, "write")
                /\ OpAt(p, "write") < OpAt(q, "write")

C18_Witness ==
    /\ \A p \in DOMAIN workers : workers[p].pc = "done"
    /\ \E p \in DOMAIN workers : LostUpdate(p)

\* the fields among sku, name and price whose value is falsy, in that order
FalsyRequired(product) ==
    SelectSeq(<<"sku", "name", "price">>,
              LAMBDA field : Get(product, field, JNull) \in {JNull, JStr(""), JNum(0)})

\* validate has run and returned in the run of strategy s
ValidateReturned(s) == "validate" \in Range(run[s].started) /\ "pricing" \in DOMAIN run[s].state

\* C19: validate succeeds exactly when sku, name and price are all truthy;
\* when it rejects, it has appended one validate event with payload status
\* error, the last of the log, and raised the error that lists the falsy
\* fields among sku, name, price in that order.
C19_ValidateIffTruthy ==
    \A s \in Strategies :
        "validate" \in Range(run[s].started) =>
            LET falsy == FalsyRequired(run[s].product)
                events == EventsOf(s)
            IN /\ ValidateReturned(s) <=> falsy = <<>>
               /\ falsy # <<>> =>
                     /\ run[s].status = "raised"
                     /\ run[s].exc = [type |-> "ValueError", missing |-> falsy]
                     /\ StepPositions(events, "validate") = {Len(events)}
                     /\ events[Len(events)] =
                           WorkflowEvent("validate",
                                         [text |-> "Missing required fields: ", args |-> falsy],
                                         [status |-> "error"])

\* C20: once validate has appended "Validation passed", the run does not
\* fail in validate: the stage returns pricing with the product's currency
\* (USD when absent), the numeric value of price and in_stock true for a
\* finite value.
C20_PassedThenPricing ==
    \A s \in Strategies :
        (/\ run[s].status # "idle"
         /\ \E k \in 1..Len(EventsOf(s)) : EventsOf(s)[k].message.text = "Validation passed") =>
            /\ ValidateReturned(s)
            /\ run[s].state["pricing"] =
                  JDict(<< <<"currency", Get(run[s].product, "currency", JStr("USD"))>>,
                           <<"price", run[s].product["price"]>>,
                           <<"in_stock", JBool(TRUE)>> >>)

\* extract has run and returned in the run of strategy s
ExtractReturned(s) ==
    "extract" \in Range(run[s].started) /\ "normalized_attributes" \in DOMAIN run[s].state

\* extract took the fallback path in the run of strategy s
FallbackExtract(s) ==
    \E k \in 1..Len(EventsOf(s)) : EventsOf(s)[k].message.text = "Normalizing attributes"

\* the lowercased category of the product, "uncategorized" when it has none
CategoryOf(product) ==
    IF "category" \in DOMAIN product /\ IsStr(product["category"])
    THEN JStr(Lower(product["category"].str))
    ELSE JStr("uncategorized")

\* the raw attributes of the product under their lowercased, underscored
\* keys, each with its unit-normalized value
RawNormalized(product) ==
    LET raw == Get(product, "attributes", JDict(<<>>)).dict IN
    {<<ReplaceSpaces(Lower(raw[i][1])), _convert_units(ReplaceSpaces(Lower(raw[i][1])), raw[i][2])>> :
        i \in 1..Len(raw)}

\* what C21 says of the value extract stored in the run of strategy s
ExtractedAsClaimed(s) ==
    LET normalized == run[s].state["normalized_attributes"] IN
    /\ IsDict(normalized)
    /\ Cardinality({i \in 1..Len(normalized.dict) : normalized.dict[i][1] = "category"}) = 1
    /\ DictGet(normalized.dict, "category", JNull) = CategoryOf(run[s].product)
    /\ FallbackExtract(s) =>
          {pair \in Range(normalized.dict) : pair[1] # "category"}
              = {pair \in RawNormalized(run[s].product) : pair[1] # "category"}

\* the part of C21 that holds: whenever extract returned, on either path, the
\* value it stored is as the claim says
C21_ExtractReturnedAsClaimed ==
    \A s \in Strategies : ExtractReturned(s) => ExtractedAsClaimed(s)

\* a fallback extract that overrode a raw attribute named category and
\* normalized a key with a space and a weight in pounds
C21_ReturnedWitness ==
    \E s \in Strategies :
        /\ ExtractReturned(s)
        /\ FallbackExtract(s)
        /\ Get(run[s].product, "attributes", JNull) = RichAttributes
        /\ DictGet(run[s].state["normalized_attributes"].dict, "category", JNull) = JStr("outdoors")
        /\ DictGet(run[s].state["normalized_attributes"].dict, "weight", JNull)
              = Kg10Lb(JStr("10 lb"))
        /\ DictGet(run[s].state["normalized_attributes"].dict, "pack_size", JNull) = JStr("6")

\* C21: on both extract paths, for every product, extract stores
\* normalized_attributes with the key category holding the lowercased product
\* category, "uncategorized" when the product has none, overriding any raw or
\* capability-returned attribute of that name; on the fallback path the other
\* keys are the raw attribute keys lowercased and underscored, each with its
\* unit-normalized raw value.
C21_CategoryForced ==
    \A s \in Strategies :
        "extract" \in Range(run[s].started) => (ExtractReturned(s) /\ ExtractedAsClaimed(s))

\* localize has run and returned in the run of strategy s
LocalizeReturned(s) ==
    "localize" \in Range(run[s].started) /\ "localizations" \in DOMAIN run[s].state

\* the capability is available to the stages of the process
CapabilityAvailable == Truthy(_get_openai_client(_openai_client))

\* what C22 says of the localizations stored in the run of strategy s: the
\* first is the en-US entry with every one of title, description and
\* long_description that seo has, unmodified, and it is alone without the
\* capability
BaseLocaleFirst(s) ==
    LET seo == run[s].state["seo"]
        localizations == run[s].state["localizations"]
    IN /\ IsList(localizations)
       /\ localizations.list # <<>>
       /\ LET first == localizations.list[1] IN
            /\ IsDict(first)
            /\ DictGet(first.dict, "locale", JNull) = JStr("en-US")
            /\ IsDict(seo)
            /\ \A field \in {"title", "description", "long_description"} \cap DictKeys(seo.dict) :
                  DictGet(first.dict, field, JNull) = DictGet(seo.dict, field, JNull)
       /\ ~CapabilityAvailable => Len(localizations.list) = 1

\* the part of C22 that holds: whenever localize returned, the stored
\* localizations are as the claim says
C22_LocalizeReturnedAsClaimed ==
    \A s \in Strategies : LocalizeReturned(s) => BaseLocaleFirst(s)

\* localize returned three locales after the capability wrote the seo copy,
\* and the en-US entry has its long description
C22_ReturnedWitness ==
    \E s \in Strategies :
        /\ LocalizeReturned(s)
        /\ run[s].state["seo"] = SeoJson
        /\ Len(run[s].state["localizations"].list) = 3
        /\ DictGet(run[s].state["localizations"].list[1].dict, "long_description", JNull)
              = JStr("AI long description")

\* localize returned the en-US entry alone without the capability
C22_FallbackWitness ==
    \E s \in Strategies :
        /\ LocalizeReturned(s)
        /\ ~CapabilityAvailable
        /\ Len(run[s].state["localizations"].list) = 1

\* C22: in every run that reaches localize, localizations is stored, its
\* first element has locale en-US with title, description and
\* long_description copied unmodified from seo, and without the capability it
\* is the only element.
C22_BaseLocaleFirst ==
    \A s \in Strategies :
        "localize" \in Range(run[s].started) => (LocalizeReturned(s) /\ BaseLocaleFirst(s))

\* the calls of the capability that localize made in the run of strategy s
LocalizeCalls(s) == SelectSeq(run[s].calls, LAMBDA call : call.stage = "localize")

\* the call succeeded and its content parsed to a translation object
Translated(call) ==
    /\ ~call.answer.raises
    /\ json_loads(call.answer.content).ok
    /\ IsDict(json_loads(call.answer.content).value)

\* the localize events about the locale that report a failure, and a success
FailureEventsFor(s, locale) ==
    {i \in 1..Len(EventsOf(s)) :
        EventsOf(s)[i] = WorkflowEvent("localize",
                                       [text |-> "Localization failed for ", args |-> <<locale>>],
                                       JNull)}
SuccessEventsFor(s, locale) ==
    {i \in 1..Len(EventsOf(s)) :
        /\ EventsOf(s)[i].step = "localize"
        /\ EventsOf(s)[i].message = [text |-> "AI localized to ", args |-> <<locale_name(locale)>>]}

\* what C23 says of a localize stage that ran with the capability: one call
\* for es-ES and then one for fr-FR, the result is en-US followed by the
\* locales whose call gave a translation, in that order, a failed locale has
\* one failure event and a translated one has none
LocalizedPerLocale(s) ==
    LET calls == LocalizeCalls(s)
        localizations == run[s].state["localizations"].list
        translated == SelectSeq(calls, Translated)
    IN /\ [k \in 1..Len(calls) |-> calls[k].locale] = <<"es-ES", "fr-FR">>
       /\ [k \in 1..Len(localizations) |-> DictGet(localizations[k].dict, "locale", JNull)]
             = <<JStr("en-US")>> \o [k \in 1..Len(translated) |-> JStr(translated[k].locale)]
       /\ \A k \in 1..Len(calls) :
             /\ Cardinality(FailureEventsFor(s, calls[k].locale))
                   = IF Translated(calls[k]) THEN 0 ELSE 1
             /\ Cardinality(SuccessEventsFor(s, calls[k].locale))
                   = IF Translated(calls[k]) THEN 1 ELSE 0

\* the part of C23 that holds: whenever localize returned with the
\* capability available, its calls, result and events are as the claim says
C23_LocalizeReturnedAsClaimed ==
    \A s \in Strategies :
        (LocalizeReturned(s) /\ CapabilityAvailable) => LocalizedPerLocale(s)

\* the call for es-ES failed, the call for fr-FR was still made and gave a
\* translation, and the result is en-US, fr-FR
C23_ReturnedWitness ==
    \E s \in Strategies :
        /\ LocalizeReturned(s)
        /\ Len(LocalizeCalls(s)) = 2
        /\ LocalizeCalls(s)[1].answer.raises
        /\ Translated(LocalizeCalls(s)[2])
        /\ Len(run[s].state["localizations"].list) = 2
        /\ DictGet(run[s].state["localizations"].list[2].dict, "locale", JNull) = JStr("fr-FR")

\* C23: with the capability available, a localize stage makes exactly one
\* call for es-ES and then exactly one for fr-FR whatever the first gave; the
\* result lists en-US, then es-ES and fr-FR each if and only if its call
\* succeeded and parsed; a failed locale appends one localize event, is
\* omitted and is not retried.
C23_OneCallPerLocale ==
    \A s \in Strategies :
        ("localize" \in Range(run[s].started) /\ CapabilityAvailable) =>
            (LocalizeReturned(s) /\ LocalizedPerLocale(s))

\* C24: the enriched slot of a run is unset until publish has completed, and
\* no other stage sets it; once set, its sku and name are the product's and
\* its normalized_attributes, seo, localizations and pricing are the values
\* that extract, copywrite, localize and validate stored in the state; and
\* the one publish event is the last event of a run that returned.
C24_PublishAloneSetsEnriched ==
    \A s \in Strategies :
        run[s].status # "idle" =>
            /\ "publish" \notin Range(run[s].started) => "enriched" \notin DOMAIN run[s].state
            /\ "enriched" \in DOMAIN run[s].state =>
                  LET enriched == run[s].state["enriched"] IN
                  /\ run[s].started = WORKFLOW_STEPS
                  /\ enriched["sku"] = run[s].product["sku"]
                  /\ enriched["name"] = run[s].product["name"]
                  /\ \A slot \in {"normalized_attributes", "seo", "localizations", "pricing"} :
                        /\ slot \in DOMAIN run[s].state
                        /\ enriched[slot] = run[s].state[slot]
            /\ run[s].status = "returned" =>
                  /\ run[s].result.enriched = run[s].state["enriched"]
                  /\ StepPositions(run[s].result.events, "publish") = {Len(run[s].result.events)}
                  /\ run[s].result.events[Len(run[s].result.events)]
                        = WorkflowEvent("publish", Msg("Enriched product ready"),
                                        [sku |-> run[s].product["sku"]])

C24_Witness ==
    \E s \in Strategies :
        /\ run[s].status = "returned"
        /\ run[s].state["enriched"]["seo"] = SeoJson
        /\ Len(run[s].state["enriched"]["localizations"].list) = 3
        /\ run[s].state["enriched"]["pricing"] = run[s].state["pricing"]
        /\ run[s].state["pricing"] # JDict(<<>>)

\* the slots of the state that the stages fill, and the stage that fills each
OutputSlots == {"normalized_attributes", "pricing", "seo", "localizations", "enriched"}
SlotOf(stage) ==
    CASE stage = "extract" -> {"normalized_attributes"}
      [] stage = "validate" -> {"pricing"}
      [] stage = "copywrite" -> {"seo"}
      [] stage = "localize" -> {"localizations"}
      [] stage = "publish" -> {"enriched"}
      [] OTHER -> {}

\* a step of the stage at which the run of strategy s stands
StageStep(s) == run[s].status = "running" /\ run'[s] # run[s]

\* C25: a step of a stage leaves both catalog stores, the source product and
\* every slot other than its own as they were (present or not, and with the
\* same value) and only adds to the end of the event list; so a slot that is
\* set was set by its own stage, which ran once.
C25_StagesKeepFrame ==
    /\ [][\A s \in Strategies :
            StageStep(s) =>
                /\ simple_store' = simple_store
                /\ enriched_store' = enriched_store
                /\ run'[s].product = run[s].product
                /\ run'[s].state["product"] = run[s].state["product"]
                /\ run'[s].started = Append(run[s].started, run[s].node)
                /\ IsPrefix(run[s].state["events"], run'[s].state["events"])
                /\ DOMAIN run'[s].state \subseteq
                      DOMAIN run[s].state \cup SlotOf(run[s].node)
                /\ \A slot \in DOMAIN run[s].state \ ({"events"} \cup SlotOf(run[s].node)) :
                      /\ slot \in DOMAIN run'[s].state
                      /\ run'[s].state[slot] = run[s].state[slot]]_vars
    /\ [](\A s \in Strategies :
            run[s].status # "idle" =>
                \A stage \in DOMAIN Edges :
                    \A slot \in SlotOf(stage) \cap DOMAIN run[s].state :
                        Cardinality({i \in 1..Len(run[s].started) : run[s].started[i] = stage}) = 1)

C25_Witness ==
    /\ batch.pc = "loop"
    /\ run[Selected].status = "returned"
    /\ OutputSlots \subseteq DOMAIN run[Selected].state
    /\ IsList(enriched_store) /\ enriched_store.list # <<>>
    /\ IsList(simple_store) /\ Len(simple_store.list) = MaxSimple

UnitToken(key) == IF key = "weight" THEN "lb" ELSE "oz"

\* a successful conversion: a string under capacity, volume or weight that
\* has the unit token of the key after the text of a number
Convertible(key, value) ==
    /\ IsStr(value)
    /\ key \in {"capacity", "volume", "weight"}
    /\ Contains(Lower(value.str), UnitToken(key))
    /\ FloatOfStr(PrefixBefore(Lower(value.str), UnitToken(key))).ok

\* C27: _convert_units returns for every key and value, raising nothing; in
\* every case that is not a successful conversion (a value that is not a
\* string, a key other than capacity, volume or weight, a string without the
\* unit token of the key, a string whose text before the token is not a
\* number) it returns the value it was given, and in a conversion it returns
\* the converted record with the given string as source.
C27_ConvertUnitsTotal ==
    pure.done =>
        /\ "type" \notin DOMAIN pure.result
        /\ ~Convertible(pure.key, pure.value) => pure.result = pure.value
        /\ Convertible(pure.key, pure.value) =>
              /\ pure.result # pure.value
              /\ HasKeys(pure.result, {"value", "unit", "source"})
              /\ DictGet(pure.result.dict, "source", JNull) = pure.value

\* the text before the unit token is not a number and the string came back
C27_Witness ==
    /\ pure.done
    /\ pure.key = "capacity"
    /\ pure.value = JStr("abc oz")
    /\ pure.result = JStr("abc oz")

\* what C28 says of when the catalogs are written: the simple catalog never,
\* the enriched catalog only by the step that ends the call, after every
\* pending record was attempted, and not at all by a call that produced no
\* record
WrittenOnceAtEnd ==
    /\ [][simple_store' = simple_store]_vars
    /\ [][enriched_store' # enriched_store =>
             /\ batch.pc = "loop" /\ batch'.pc = "done"
             /\ batch.attempted = batch.pending
             /\ Len(batch.outcomes) = Len(batch.pending)
             /\ batch.processed # <<>>
             /\ batch'.wrote]_vars
    /\ [][(batch.pc = "loop" /\ batch'.pc = "done" /\ batch.processed = <<>>) =>
             (enriched_store' = enriched_store /\ ~batch'.wrote)]_vars
    /\ [][(batch.pc = "loop" /\ batch'.pc = "done" /\ batch.processed # <<>>) =>
             batch'.wrote]_vars

\* C28 as claimed: the catalogs are written as WrittenOnceAtEnd says, and
\* the one write of a call holds every record the call produced.
C28_SingleWriteHoldsAll ==
    /\ WrittenOnceAtEnd
    /\ []((batch.pc = "done" /\ batch.wrote) =>
             \A k \in 1..Len(SucceededEnriched) :
                 SucceededEnriched[k] \in Range(load_json_array(enriched_store).data))

\* C28 as amended: the same, except that the one write holds the records
\* the call produced without those whose sku is the sku of an earlier record
\* it produced, after the records loaded at the start of the call.
C28_SingleWriteHoldsFirstPerSku ==
    /\ WrittenOnceAtEnd
    /\ []((batch.pc = "done" /\ batch.wrote) =>
             load_json_array(enriched_store).data =
                 batch.enriched_records \o
                 SubSeqAt(SucceededEnriched,
                          {k \in 1..Len(SucceededEnriched) :
                              \A j \in 1..(k - 1) :
                                  SucceededEnriched[j].sku # SucceededEnriched[k].sku}))

\* a call that produced two records of one sku and wrote the first
C28_Witness ==
    /\ batch.pc = "done"
    /\ batch.wrote
    /\ Len(SucceededEnriched) = 2
    /\ SucceededEnriched[1].sku = SucceededEnriched[2].sku
    /\ SucceededEnriched[1] # SucceededEnriched[2]
    /\ Len(load_json_array(enriched_store).data) = Len(batch.enriched_records) + 1

\* C29 as claimed: no step of a dry run of main changes the records the
\* enriched catalog holds, whether main returns or raises.
C29_DryRunNeverWrites ==
    [][cli'.dry_run =>
          load_json_array_lenient(enriched_store').data =
              load_json_array_lenient(enriched_store).data]_vars

\* what holds of a dry run: when main has returned, the enriched catalog
\* holds the records read at its start, and when main has raised no record
\* was written.
C29_DryRunRestores ==
    /\ []((cli.dry_run /\ cli.pc = "returned") =>
             /\ IsList(cli.original_enriched)
             /\ enriched_store = cli.original_enriched)
    /\ [][(cli'.dry_run /\ cli'.pc = "raised") => enriched_store' = enriched_store]_vars
    /\ []((cli.dry_run /\ cli.pc = "raised") => ~batch.wrote)

\* a dry run that has returned after process_pending_products wrote a record
C29_RestoredWitness ==
    /\ cli.dry_run
    /\ cli.pc = "returned"
    /\ batch.wrote
    /\ Len(batch.processed) >= 1

\* the steps named by the events of a list, in order
StepsOf(events) == [i \in 1..Len(events) |-> events[i].step]

\* C30: the event log of a run that returned has at least one event of each
\* of the six steps, begins with an ingest event and ends with a publish
\* event, whether the capability is present, absent or failing.
C30_EventLogNotSparse ==
    \A s \in Strategies :
        run[s].status = "returned" =>
            LET steps == StepsOf(run[s].result.events) IN
            /\ \A step \in Range(WORKFLOW_STEPS) : step \in Range(steps)
            /\ steps[1] = "ingest"
            /\ steps[Len(steps)] = "publish"

\* a run that returned after the extract call failed, the copywrite call
\* answered and one of the localize calls failed
C30_Witness ==
    \E s \in Strategies :
        /\ run[s].status = "returned"
        /\ Len(run[s].calls) = 4
        /\ \E i, j, k \in 1..4 :
              /\ run[s].calls[i].stage = "extract" /\ run[s].calls[i].answer = CallRaises
              /\ run[s].calls[j].stage = "copywrite" /\ run[s].calls[j].answer # CallRaises
              /\ run[s].calls[k].stage = "localize" /\ run[s].calls[k].answer = CallRaises
        /\ Len(run[s].result.events) > 6

\* a run that returned without the capability
C30_FallbackWitness ==
    \E s \in Strategies :
        /\ run[s].status = "returned"
        /\ run[s].calls = <<>>
        /\ Len(run[s].result.events) > 6

\* the record's own run succeeds (no client is configured)
RunSucceeds(record) == enrich_product(record).status = "returned"

\* the skus of the records of the enriched catalog
EnrichedSkus ==
    {Get(load_json_array(enriched_store).data[i], "sku", JNull) :
         i \in 1..Len(load_json_array(enriched_store).data)}

\* the positions of the simple catalog whose record would succeed and whose
\* sku the enriched catalog does not hold
ValidPending ==
    {k \in 1..Len(SimpleCatalog) :
        /\ RunSucceeds(SimpleCatalog[k])
        /\ Get(SimpleCatalog[k], "sku", JNull) \notin EnrichedSkus}

\* C31: under repeated calls without process_all on an unchanging simple
\* catalog, every call that starts with a valid record pending ends with
\* fewer valid records pending, and in the end every record whose run
\* succeeds is in the enriched catalog, whatever other record fails.
C31_ValidEventuallyEnriched ==
    /\ [][(batch.pc = "loop" /\ batch'.pc = "done"
           /\ Cardinality(ValidPending) > 0)
          => Cardinality(ValidPending') < Cardinality(ValidPending)]_vars
    /\ <>[](ValidPending = {})

\* what holds of the repeated calls: a call attempts the last pending record
\* alone, and reduces the valid pending records exactly when that record's
\* run succeeds; the simple catalog stays as it is.
C31_LastPendingDecides ==
    /\ [][simple_store' = simple_store]_vars
    /\ [][(batch.pc = "loop" /\ batch'.pc = "done" /\ batch.pending # <<>>) =>
             /\ batch.attempted = <<SimpleCatalog[CHOOSE k \in PendingPositions :
                                                    \A j \in PendingPositions : j <= k]>>
             /\ IF RunSucceeds(batch.attempted[1])
                THEN Cardinality(ValidPending') < Cardinality(ValidPending)
                ELSE ValidPending' = ValidPending]_vars

\* the calls are used up, each attempted the same failing record, and a
\* valid record is still pending
C31_StarvedWitness ==
    /\ Len(log) = MaxInvocations
    /\ batch.pc = "done"
    /\ \A i \in 1..Len(log) : log[i].pending # <<>> /\ log[i].returned = 0
    /\ \A i, j \in 1..Len(log) : log[i].pending = log[j].pending
    /\ ValidPending # {}

\* the skus of the results process_pending_products returns
ReturnedSkus == [k \in 1..Len(batch.processed) |-> batch.processed[k].sku]

\* C32: the results a call of process_pending_products returns have pairwise
\* different skus, and they are as many as the records the call added to the
\* enriched catalog, also when simple records share a sku.
C32_ReturnedMatchesPersisted ==
    /\ batch.pc = "done" =>
          \A i, j \in 1..Len(ReturnedSkus) : i # j => ReturnedSkus[i] # ReturnedSkus[j]
    /\ \A i \in 1..Len(log) : log[i].returned = Len(log[i].appended)

\* what holds of the returned results: the call added one record for each
\* different sku among them, never more records than it returned.
C32_AddedOnePerReturnedSku ==
    /\ batch.pc = "done" =>
          /\ Len(load_json_array(enriched_store).data) - Len(batch.enriched_records)
                = Cardinality(Range(ReturnedSkus))
          /\ Len(log[Len(log)].appended) = Cardinality(Range(ReturnedSkus))
    /\ \A i \in 1..Len(log) : Len(log[i].appended) <= log[i].returned

\* a call that returned two results of one sku and added one record
C32_DuplicateWitness ==
    /\ batch.pc = "done"
    /\ Len(ReturnedSkus) = 2
    /\ ReturnedSkus[1] = ReturnedSkus[2]
    /\ Len(log[Len(log)].appended) = 1

\* the stages that ask for the client, and the event each appends when it
\* gets none (pipeline.py:244, 352, 425)
AssistedStages == {"extract", "copywrite", "localize"}

FallbackMessage(step) ==
    CASE step = "extract" -> Msg("Using fallback attribute extraction")
      [] step = "copywrite" -> Msg("Using fallback SEO generation")
      [] step = "localize" -> Msg("Using fallback localization")

\* the stage of the run has run and got no client
SawAbsent(s, step) ==
    /\ step \in Range(run[s].started)
    /\ \E i \in 1..Len(EventsOf(s)) :
          EventsOf(s)[i].step = step /\ EventsOf(s)[i].message = FallbackMessage(step)

\* the stage of the run has run and got the client
SawAvailable(s, step) ==
    /\ step \in Range(run[s].started)
    /\ ~SawAbsent(s, step)

\* C33: in one run extract, copywrite and localize all get the client or all
\* get none, as the installation and the key decide for the whole run; and a
\* client that was created stays the one client for every later stage and
\* product, and is created only when the installation and the key allow it.
C33_OneRouteOneClient ==
    /\ [](\A s \in Strategies :
             run[s].status # "idle" =>
                 /\ \A a, b \in AssistedStages :
                       (SawAbsent(s, a) => ~SawAvailable(s, b))
                 /\ \A a \in AssistedStages :
                       /\ SawAvailable(s, a) =>
                             (OPENAI_AVAILABLE /\ Truthy(OPENAI_API_KEY)
                              /\ _openai_client = Client)
                       /\ SawAbsent(s, a) => ~(OPENAI_AVAILABLE /\ Truthy(OPENAI_API_KEY))
                 /\ \A i \in 1..Len(run[s].calls) :
                       SawAvailable(s, run[s].calls[i].stage))
    /\ [][_openai_client # NoClient => _openai_client' = _openai_client]_vars
    /\ [](_openai_client \in {NoClient, Client})
    /\ [](_openai_client = Client => (OPENAI_AVAILABLE /\ Truthy(OPENAI_API_KEY)))

\* a run that returned in which the three stages got the client and made
\* their four calls
C33_Witness ==
    \E s \in Strategies :
        /\ run[s].status = "returned"
        /\ \A a \in AssistedStages : SawAvailable(s, a)
        /\ Len(run[s].calls) = 4
        /\ _openai_client = Client

\* a run in which the three stages got no client although the key is set,
\* the package being absent
C33_AbsentWitness ==
    \E s \in Strategies :
        /\ run[s].status = "returned"
        /\ \A a \in AssistedStages : SawAbsent(s, a)
        /\ ~OPENAI_AVAILABLE
        /\ Truthy(OPENAI_API_KEY)

\* a run about to start with the client already created by an earlier one
C33_LaterProductWitness ==
    \E s \in Strategies :
        /\ run[s].status = "running"
        /\ run[s].started = <<>>
        /\ _openai_client = Client

====
